---- MODULE Spec2Model ----
(***************************************************************************)
(* Reader service ingestion core: the read processing pipeline              *)
(* (services/read_processor.py), the quality filter (utils/filtering.py)    *)
(* and the deduplicator (utils/deduplication.py).                           *)
(*                                                                          *)
(* Units.  signal_strength is in whole dBm.  read_time, the clock and the   *)
(* dedup window are in half seconds (5.0 s = 10).  Quality scores and the   *)
(* quality threshold are multiplied by 1000 (0.7 = 700); for whole dBm the  *)
(* score 0.6 * (s + 70) / 50 + 0.4 is then the integer 12 * (s + 70) + 400. *)
(***************************************************************************)
EXTENDS Integers, Sequences, FiniteSets, TLC

VARIABLES
    \* ReadFilter
    validation_cache,   \* ReadFilter.validation_cache: read id -> cached score
    f_phase,            \* position of the caller of apply_filters
    f_batch,            \* the batch handed to apply_filters
    f_out,              \* what apply_filters returned for f_batch
    f_out2,             \* what apply_filters returned for f_out
    \* ReadDeduplicator
    read_buffer,        \* ReadDeduplicator._read_buffer: rfid_tag -> list of reads
    now,                \* the wall clock read by _clean_buffer
    d_batch,            \* the batch handed to the last process_reads call
    d_out,              \* what that call returned
    d_trace,            \* per input read of that call: the buffer it met and its fate
    \* ReadProcessor
    read_queue,         \* _read_queue: the reads held by the asyncio.Queue, oldest first
    running,            \* _running
    processed_count,    \* _processed_count
    reads_received,     \* _metrics['reads_received']
    reads_processed,    \* _metrics['reads_processed']
    processing_errors,  \* _metrics['processing_errors'], by error_type
    queue_size,         \* _metrics['queue_size'] (gauge)
    loop_pc,            \* position of each _processing_loop task
    loop_batch,         \* the local batch of each _processing_loop task
    monitor_pc,         \* position of each _monitor_health task
    stop_pc,            \* position of the caller of stop()
    stop_batch,         \* the local batch of stop()
    last_result,        \* what the last process_read call returned
    calls,              \* number of process_read calls made so far
    drops,              \* number of process_read calls rejected because the queue was full
    error_counts,       \* _error_counts: the dict _check_error_threshold sums
    owed_in_queue,      \* reads at the head of the queue that were queued when stop() was called
    owed_held,          \* of those, the ones each _processing_loop task holds unprocessed
    \* Reader
    status,             \* Reader.status
    status_history,     \* Reader.status_history
    last_heartbeat,     \* Reader.last_heartbeat
    error_count,        \* Reader.health_metrics["error_count"]
    update_call,        \* the last update_status call: its arguments and its outcome
    update_calls,       \* number of update_status calls made so far
    update_successes,   \* number of update_status calls that returned True
    update_status_attr, \* what reader.update_status is: the method, or an AsyncMock
    health_call,        \* the last is_healthy call: what it raised and what it returned
    \* LLRPService
    llrp_readers,       \* LLRPService._readers: the ids it holds
    llrp_clients,       \* LLRPService._clients: the ids it holds
    connect_pc,         \* position of the caller of connect_reader (inside backoff)
    connect_tries,      \* attempts backoff has made in that call
    connect_started,    \* when that call began
    connect_result,     \* how the last connect_reader call ended: True or the exception
    connect_calls,      \* number of connect_reader calls made so far
    connect_errors,     \* _metrics['connection_errors'] of the reader, by error_type
    handler_spawned,    \* number of _handle_reads tasks connect_reader has created
    read_arg,           \* the read of the last process_read call a caller observed
    read_call,          \* the last Read(...) construction: arguments and outcome
    start_result,       \* outcome of the last start() a caller observed
    start_calls,        \* number of those start() calls
    handler_pc,         \* position of the _handle_reads task of the reader
    handler_batch,      \* its local batch of reports
    last_process_time,  \* its local last_process_time
    reports_received,   \* number of receive_report calls that returned to it
    \* ReaderController
    register_pc,        \* position of the caller of register_reader
    register_result,    \* how the last register_reader call ended
    controller_readers, \* ReaderController._readers: the ids it holds
    processing_task_pc, \* position of the _process_reader_reads task of the reader
    batch_reader_id,    \* reader_id of the last LLRPService.process_batch call
    batch_reports,      \* reports of that call
    batch_processor,    \* the processor of the service that took that call
    processor_calls,    \* calls of the processor's process_batch
    batch_reads,        \* the reads that call built from the reports
    connection_errors,  \* _metrics['connection_errors']{error_type='processing'}, by reader_id
    read_rate           \* _metrics['read_rate'], by reader_id

filter_call_vars == <<f_phase, f_batch, f_out, f_out2>>
dedup_call_vars == <<d_batch, d_out, d_trace>>
metric_vars == <<processed_count, reads_received, reads_processed, processing_errors, queue_size>>
task_vars == <<loop_pc, loop_batch, monitor_pc, stop_pc, stop_batch>>
ingress_vars == <<last_result, calls, drops>>
drain_vars == <<owed_in_queue, owed_held>>
pipe_vars ==
    <<read_queue, running, metric_vars, task_vars, ingress_vars, error_counts, drain_vars>>
reader_vars ==
    <<status, status_history, last_heartbeat, error_count, update_call, update_calls,
      update_successes, update_status_attr>>
health_vars == <<health_call>>
connect_vars ==
    <<llrp_readers, llrp_clients, connect_pc, connect_tries, connect_started, connect_result,
      connect_calls, connect_errors, handler_spawned>>
observer_vars == <<read_arg>>
read_vars == <<read_call>>
lifecycle_vars == <<start_result, start_calls>>
handler_vars == <<handler_pc, handler_batch, last_process_time, reports_received>>
register_vars == <<register_pc, register_result, controller_readers, processing_task_pc>>
adapter_vars ==
    <<batch_reader_id, batch_reports, batch_processor, processor_calls, batch_reads,
      connection_errors, read_rate>>
device_vars ==
    <<reader_vars, health_vars, connect_vars, handler_vars, register_vars, adapter_vars,
      lifecycle_vars, read_vars, observer_vars>>
vars ==
    <<validation_cache, filter_call_vars, read_buffer, now, dedup_call_vars, pipe_vars,
      device_vars>>

(***************************************************************************)
(* Bounds of the model.                                                     *)
(***************************************************************************)
MaxFilterBatch == 3     \* longest batch handed to apply_filters
FilterBatchSize == 2    \* ReadFilter.batch_size (sub-batch size), scaled down from 100
MaxDedupBatch == 1      \* longest batch drawn freely for process_reads
MaxNow == 20            \* the clock stops advancing here
QueueSizeLimit == 2     \* queue_size_limit, scaled down from MAX_QUEUE_SIZE = 10000
BATCH_SIZE == 1         \* read_processor.BATCH_SIZE, scaled down from 100; below
                        \* QueueSizeLimit, as 100 is below 10000
MaxWorkers == 2         \* pairs of worker tasks (loop, monitor) alive at once
MaxCalls == 3           \* process_read calls
MaxFailures == 1        \* batches whose processing raises
MaxUpdateCalls == 5     \* update_status calls on the reader
HistoryCap == 3         \* the cap of status_history (1,000), scaled down
HEARTBEAT_THRESHOLD_SECONDS == 10   \* reader.HEARTBEAT_THRESHOLD_SECONDS (60 s), scaled
                                    \* down to 5 s, in half seconds
MaxReports == 2         \* reports in one LLRPService.process_batch call
MaxTags == 1            \* EPCData entries in one report
AdapterBatchSize == 2    \* llrp_service.BATCH_SIZE, scaled down from 100
MaxStartCalls == 3       \* start() calls whose outcome is observed
MaxReceived == 2         \* reports a _handle_reads task receives
MaxConnectCalls == 1     \* connect_reader calls
MaxBatchErrors == 1     \* LLRPService.process_batch calls that end in the except clause

(***************************************************************************)
(* models/read.py                                                           *)
(***************************************************************************)
MIN_SIGNAL_STRENGTH == -70
MAX_SIGNAL_STRENGTH == -20

\* A read: Read's fields that the pipeline looks at.  uuid4 gives every read
\* its own id, so the id stands for the read's content.  is_processed has its
\* default; the class is frozen.
MkRead(tag, sig, t) ==
    [id |-> <<tag, sig, t>>, rfid_tag |-> tag, signal_strength |-> sig, read_time |-> t,
     is_processed |-> FALSE]

validate_signal_strength(signal_strength) ==
    IF signal_strength < MIN_SIGNAL_STRENGTH THEN FALSE
    ELSE IF signal_strength > MAX_SIGNAL_STRENGTH THEN FALSE
    ELSE TRUE

\* Strings whose characters matter are sequences of one-character strings.
HexChars ==
    {"0", "1", "2", "3", "4", "5", "6", "7", "8", "9",
     "A", "B", "C", "D", "E", "F", "a", "b", "c", "d", "e", "f"}

Whitespace == {" ", "\t", "\n"}

\* number of characters RFID_TAG_PATTERN asks for: {24}
TagLength == 24

\* _TAG_PATTERN.match(rfid_tag) for r'^[A-Fa-f0-9]{24}$': 24 hex characters
\* from the start, then `$`, which without re.MULTILINE matches at the end of
\* the string and also just before a newline that ends the string.
tag_pattern_match(rfid_tag) ==
    /\ Len(rfid_tag) >= TagLength
    /\ \A i \in 1..TagLength : rfid_tag[i] \in HexChars
    /\ \/ Len(rfid_tag) = TagLength
       \/ Len(rfid_tag) = TagLength + 1 /\ rfid_tag[TagLength + 1] = "\n"

\* str.strip(): leading and trailing whitespace removed
RECURSIVE strip(_)
strip(str) ==
    IF str = <<>> THEN <<>>
    ELSE IF Head(str) \in Whitespace THEN strip(Tail(str))
    ELSE IF str[Len(str)] \in Whitespace THEN strip(SubSeq(str, 1, Len(str) - 1))
    ELSE str

\* Read.__post_init__: what it raises
post_init(rfid_tag, reader_id, signal_strength) ==
    IF ~tag_pattern_match(rfid_tag) THEN "ValueError"
    ELSE IF ~validate_signal_strength(signal_strength) THEN "ValueError"
    ELSE IF strip(reader_id) = <<>> THEN "ValueError"
    ELSE "none"

\* Read(rfid_tag=..., reader_id=..., signal_strength=...): the object, unless
\* __post_init__ raised; is_processed takes its default.
Read(rfid_tag, reader_id, signal_strength) ==
    LET raised == post_init(rfid_tag, reader_id, signal_strength)
    IN [raised |-> raised,
        read |-> IF raised # "none" THEN <<>>
                 ELSE <<[rfid_tag |-> rfid_tag,
                         reader_id |-> reader_id,
                         signal_strength |-> signal_strength,
                         is_processed |-> FALSE]>>]

(***************************************************************************)
(* utils/filtering.py                                                       *)
(***************************************************************************)
DEFAULT_QUALITY_THRESHOLD == 700

quality_threshold == DEFAULT_QUALITY_THRESHOLD

Min(a, b) == IF a <= b THEN a ELSE b

\* calculate_read_quality: the cached score if there is one; 0 for a signal
\* out of range (not cached); else the weighted score, which is cached.
calculate_read_quality(cache, read) ==
    IF read.id \in DOMAIN cache
    THEN [score |-> cache[read.id], cache |-> cache]
    ELSE IF ~validate_signal_strength(read.signal_strength)
    THEN [score |-> 0, cache |-> cache]
    ELSE LET signal_range == MAX_SIGNAL_STRENGTH - MIN_SIGNAL_STRENGTH
             \* 1000 * (0.6 * normalized_signal + 0.4 * time_factor), time_factor = 1
             quality_score ==
                 (600 * (read.signal_strength - MIN_SIGNAL_STRENGTH)) \div signal_range + 400
         IN [score |-> quality_score,
             cache |-> [i \in DOMAIN cache \cup {read.id} |->
                           IF i = read.id THEN quality_score ELSE cache[i]]]

\* asyncio.gather over calculate_read_quality tasks: the scores of `reads`, in order.
RECURSIVE gather_quality(_, _)
gather_quality(cache, reads) ==
    IF reads = <<>> THEN [scores |-> <<>>, cache |-> cache]
    ELSE LET q == calculate_read_quality(cache, Head(reads))
             rest == gather_quality(q.cache, Tail(reads))
         IN [scores |-> <<q.score>> \o rest.scores, cache |-> rest.cache]

\* [read for read, score in zip(batch, quality_scores) if score >= threshold]
RECURSIVE zip_select(_, _)
zip_select(batch, quality_scores) ==
    IF batch = <<>> \/ quality_scores = <<>> THEN <<>>
    ELSE (IF Head(quality_scores) >= quality_threshold THEN <<Head(batch)>> ELSE <<>>)
         \o zip_select(Tail(batch), Tail(quality_scores))

\* process_batch_async: a scoring task for every read with a valid signal, then
\* the batch zipped with the scores of those tasks.
process_batch_async(cache, batch) ==
    LET tasks == SelectSeq(batch, LAMBDA r : validate_signal_strength(r.signal_strength))
        g == gather_quality(cache, tasks)
    IN IF tasks = <<>> THEN [out |-> <<>>, cache |-> cache]
       ELSE [out |-> zip_select(batch, g.scores), cache |-> g.cache]

\* reads[i:i + batch_size] for i in range(0, len(reads), batch_size), each
\* through process_batch_async, results concatenated in order.
RECURSIVE process_batches(_, _)
process_batches(cache, reads) ==
    IF reads = <<>> THEN [out |-> <<>>, cache |-> cache]
    ELSE LET n == Min(FilterBatchSize, Len(reads))
             first == process_batch_async(cache, SubSeq(reads, 1, n))
             rest == process_batches(first.cache, SubSeq(reads, n + 1, Len(reads)))
         IN [out |-> first.out \o rest.out, cache |-> rest.cache]

\* the second pass of apply_filters over the processed batches
RECURSIVE combine_and_filter(_, _)
combine_and_filter(cache, reads) ==
    IF reads = <<>> THEN [out |-> <<>>, cache |-> cache]
    ELSE LET q == calculate_read_quality(cache, Head(reads))
             rest == combine_and_filter(q.cache, Tail(reads))
         IN [out |-> (IF q.score >= quality_threshold THEN <<Head(reads)>> ELSE <<>>)
                     \o rest.out,
             cache |-> rest.cache]

\* apply_filters without its second pass (lines 101-106).
apply_filters_single_pass(cache, reads) ==
    IF reads = <<>> THEN [out |-> <<>>, cache |-> cache]
    ELSE process_batches(cache, reads)

apply_filters(cache, reads) ==
    IF reads = <<>> THEN [out |-> <<>>, cache |-> cache]
    ELSE LET processed == process_batches(cache, reads)
         IN combine_and_filter(processed.cache, processed.out)

(***************************************************************************)
(* utils/deduplication.py                                                   *)
(***************************************************************************)
DEFAULT_TIME_WINDOW == 10
DEFAULT_SIGNAL_THRESHOLD == 3
MaxBufferSize == 3      \* ReadDeduplicator._max_buffer_size, scaled down from 10000

time_window_seconds == DEFAULT_TIME_WINDOW
signal_threshold_dbm == DEFAULT_SIGNAL_THRESHOLD
max_buffer_size == MaxBufferSize

Abs(x) == IF x < 0 THEN -x ELSE x

\* sum(len(reads) for reads in self._read_buffer.values())
RECURSIVE buffer_total(_)
buffer_total(buf) ==
    IF DOMAIN buf = {} THEN 0
    ELSE LET tag == CHOOSE g \in DOMAIN buf : TRUE
         IN Len(buf[tag]) + buffer_total([g \in DOMAIN buf \ {tag} |-> buf[g]])

\* _clean_buffer: keep the reads newer than the cutoff, delete emptied tag entries.
_clean_buffer(buf, current_time) ==
    LET cutoff_time == current_time - time_window_seconds
        kept(tag) == SelectSeq(buf[tag], LAMBDA read : read.read_time > cutoff_time)
    IN [tag \in {g \in DOMAIN buf : kept(g) # <<>>} |-> kept(tag)]

\* _is_duplicate with `time_diff >= window` at line 179.
_is_duplicate_window_exclusive(read, existing_read) ==
    IF ~validate_signal_strength(read.signal_strength) THEN FALSE
    ELSE IF ~validate_signal_strength(existing_read.signal_strength) THEN FALSE
    ELSE IF Abs(read.read_time - existing_read.read_time) >= time_window_seconds THEN FALSE
    ELSE Abs(read.signal_strength - existing_read.signal_strength) < signal_threshold_dbm

\* _is_duplicate with `signal_diff <= threshold` at line 186.
_is_duplicate_threshold_inclusive(read, existing_read) ==
    IF ~validate_signal_strength(read.signal_strength) THEN FALSE
    ELSE IF ~validate_signal_strength(existing_read.signal_strength) THEN FALSE
    ELSE IF Abs(read.read_time - existing_read.read_time) > time_window_seconds THEN FALSE
    ELSE Abs(read.signal_strength - existing_read.signal_strength) <= signal_threshold_dbm

_is_duplicate(read, existing_read) ==
    IF ~validate_signal_strength(read.signal_strength) THEN FALSE
    ELSE IF ~validate_signal_strength(existing_read.signal_strength) THEN FALSE
    ELSE IF Abs(read.read_time - existing_read.read_time) > time_window_seconds THEN FALSE
    ELSE Abs(read.signal_strength - existing_read.signal_strength) < signal_threshold_dbm

\* buffer_full with `total_reads > max_buffer_size`.
buffer_full_off_by_one(buf) == buffer_total(buf) > max_buffer_size

\* if total_reads >= self._max_buffer_size
buffer_full(buf) == buffer_total(buf) >= max_buffer_size

\* What the loop of process_reads did with one input read: the buffer it met,
\* and whether it was emitted, found duplicate, or left behind by the break.
Fate(read, buf, fate) == [read |-> read, buffer |-> buf, fate |-> fate]

\* The for loop of process_reads.
RECURSIVE dedup_loop(_, _, _, _)
dedup_loop(buf, reads, deduplicated_reads, trace) ==
    IF reads = <<>>
    THEN [buf |-> buf, out |-> deduplicated_reads, trace |-> trace]
    ELSE IF buffer_full(buf)
    THEN \* break: the rest of the batch is not looked at
         [buf |-> buf, out |-> deduplicated_reads,
          trace |-> trace \o [i \in 1..Len(reads) |-> Fate(reads[i], buf, "skipped")]]
    ELSE LET read == Head(reads)
             tag_reads == IF read.rfid_tag \in DOMAIN buf THEN buf[read.rfid_tag] ELSE <<>>
             is_duplicate == \E i \in 1..Len(tag_reads) : _is_duplicate(read, tag_reads[i])
             appended == [g \in DOMAIN buf \cup {read.rfid_tag} |->
                             IF g = read.rfid_tag THEN Append(tag_reads, read) ELSE buf[g]]
         IN IF is_duplicate
            THEN dedup_loop(buf, Tail(reads), deduplicated_reads,
                            Append(trace, Fate(read, buf, "duplicate")))
            ELSE dedup_loop(appended, Tail(reads), Append(deduplicated_reads, read),
                            Append(trace, Fate(read, buf, "emitted")))

\* process_reads with deduplicated_reads.insert(0, read) for the append at line 127.
process_reads_newest_first(buf, current_time, reads) ==
    IF reads = <<>> THEN [buf |-> buf, out |-> <<>>, trace |-> <<>>]
    ELSE LET r == dedup_loop(_clean_buffer(buf, current_time), reads, <<>>, <<>>)
         IN [buf |-> r.buf, out |-> [i \in 1..Len(r.out) |-> r.out[Len(r.out) + 1 - i]],
             trace |-> r.trace]

process_reads(buf, current_time, reads) ==
    IF reads = <<>> THEN [buf |-> buf, out |-> <<>>, trace |-> <<>>]
    ELSE dedup_loop(_clean_buffer(buf, current_time), reads, <<>>, <<>>)

(***************************************************************************)
(* models/reader.py                                                         *)
(***************************************************************************)
ReaderStatus == {"ONLINE", "OFFLINE", "ERROR", "MAINTENANCE"}

\* the matrix with "ONLINE" added to the row of "ERROR"
STATUS_TRANSITION_MATRIX_error_recovers ==
    [s \in ReaderStatus |->
        CASE s = "OFFLINE" -> {"ONLINE", "MAINTENANCE"}
          [] s = "ONLINE" -> {"OFFLINE", "ERROR", "MAINTENANCE"}
          [] s = "ERROR" -> {"OFFLINE", "MAINTENANCE", "ONLINE"}
          [] s = "MAINTENANCE" -> {"OFFLINE"}]

STATUS_TRANSITION_MATRIX ==
    [s \in ReaderStatus |->
        CASE s = "OFFLINE" -> {"ONLINE", "MAINTENANCE"}
          [] s = "ONLINE" -> {"OFFLINE", "ERROR", "MAINTENANCE"}
          [] s = "ERROR" -> {"OFFLINE", "MAINTENANCE"}
          [] s = "MAINTENANCE" -> {"OFFLINE"}]

\* the entry __post_init__ appends
InitialEntry(timestamp, initial_status) ==
    [timestamp |-> timestamp, status |-> initial_status, reason |-> "Initial configuration"]

\* update_status with the error count raised when the OLD status is ERROR
update_status_counts_old_error(reader, new_status, reason, current_time) ==
    IF new_status \notin STATUS_TRANSITION_MATRIX[reader.status]
    THEN [reader |-> reader, result |-> "ValueError"]
    ELSE [reader |->
             [status |-> new_status,
              status_history |->
                  Append(reader.status_history,
                         [timestamp |-> current_time, old_status |-> reader.status,
                          new_status |-> new_status, reason |-> reason]),
              last_heartbeat |-> current_time,
              error_count |-> IF reader.status = "ERROR"
                              THEN reader.error_count + 1 ELSE reader.error_count],
          result |-> "True"]

\* update_status with the heartbeat refreshed before the transition is checked
update_status_touches_first(reader, new_status, reason, current_time) ==
    IF new_status \notin STATUS_TRANSITION_MATRIX[reader.status]
    THEN [reader |-> [reader EXCEPT !.last_heartbeat = current_time], result |-> "ValueError"]
    ELSE [reader |->
             [status |-> new_status,
              status_history |->
                  Append(reader.status_history,
                         [timestamp |-> current_time, old_status |-> reader.status,
                          new_status |-> new_status, reason |-> reason]),
              last_heartbeat |-> current_time,
              error_count |-> IF new_status = "ERROR"
                              THEN reader.error_count + 1 ELSE reader.error_count],
          result |-> "True"]

\* update_status on a reader [status, status_history, last_heartbeat, error_count]:
\* the reader it leaves and True, or the same reader and ValueError.
update_status(reader, new_status, reason, current_time) ==
    IF new_status \notin STATUS_TRANSITION_MATRIX[reader.status]
    THEN [reader |-> reader, result |-> "ValueError"]
    ELSE [reader |->
             [status |-> new_status,
              status_history |->
                  Append(reader.status_history,
                         [timestamp |-> current_time, old_status |-> reader.status,
                          new_status |-> new_status, reason |-> reason]),
              last_heartbeat |-> current_time,
              error_count |-> IF new_status = "ERROR"
                              THEN reader.error_count + 1 ELSE reader.error_count],
          result |-> "True"]

\* is_healthy, the generator handed to next(): the entries are visited newest
\* first and entry["new_status"] is read on each; the entry __post_init__
\* appended has no such key.  <<entry>> is the entry found, <<>> is None.
RECURSIVE last_error(_, _)
last_error(history, i) ==
    IF i = 0 THEN [raised |-> "none", entry |-> <<>>]
    ELSE IF "new_status" \notin DOMAIN history[i] THEN [raised |-> "KeyError", entry |-> <<>>]
    ELSE IF history[i]["new_status"] = "ERROR" THEN [raised |-> "none", entry |-> <<history[i]>>]
    ELSE last_error(history, i - 1)

\* is_healthy on a reader at current_time: the exception it raises, or "none"
\* and <<the dict it returns>>.  signal_strength_avg is never written and
\* stays at its default of -45.
is_healthy(reader, current_time) ==
    LET heartbeat_age == current_time - reader.last_heartbeat
        found == IF reader.status_history = <<>> THEN [raised |-> "none", entry |-> <<>>]
                 ELSE last_error(reader.status_history, Len(reader.status_history))
    IN IF found.raised # "none" THEN [raised |-> found.raised, result |-> <<>>]
       ELSE [raised |-> "none",
             result |-> <<[status |-> reader.status,
                           is_online |-> reader.status = "ONLINE",
                           heartbeat_age_seconds |-> heartbeat_age,
                           heartbeat_ok |-> heartbeat_age <= HEARTBEAT_THRESHOLD_SECONDS,
                           last_error |-> found.entry,
                           signal_strength_ok |-> validate_signal_strength(-45)]>>]

(***************************************************************************)
(* services/read_processor.py                                               *)
(***************************************************************************)
queue_size_limit == QueueSizeLimit

Workers == 1..MaxWorkers

\* asyncio.Queue.put: appends, or suspends the caller while the queue is full.
queue_put(queue, item) ==
    IF Len(queue) >= queue_size_limit
    THEN [queue |-> queue, suspended |-> TRUE]
    ELSE [queue |-> Append(queue, item), suspended |-> FALSE]

CIRCUIT_BREAKER_THRESHOLD == 15    \* 0.15, in percent

\* sum(self._error_counts.values())
RECURSIVE sum_values(_)
sum_values(counts) ==
    IF DOMAIN counts = {} THEN 0
    ELSE LET k == CHOOSE key \in DOMAIN counts : TRUE
         IN counts[k] + sum_values([key \in DOMAIN counts \ {k} |-> counts[key]])

\* error_rate = total_errors / (processed_count or 1); error_rate > 0.15
_check_error_threshold(counts, processed) ==
    LET total_errors == sum_values(counts)
        total_processed == IF processed = 0 THEN 1 ELSE processed
    IN total_errors * 100 > CIRCUIT_BREAKER_THRESHOLD * total_processed

\* process_read variants: each changes one thing in lines 161-176.
\* The read is appended with no capacity check and no bounded put.
process_read_unbounded(queue, read) ==
    IF ~validate_signal_strength(read.signal_strength)
    THEN [result |-> "False", queue |-> queue, received |-> 0, errors |-> 1]
    ELSE [result |-> "True", queue |-> Append(queue, read), received |-> 1, errors |-> 0]

\* The qsize() check is missing: the coroutine awaits put() on a full queue.
process_read_blocking(queue, read) ==
    IF ~validate_signal_strength(read.signal_strength)
    THEN [result |-> "False", queue |-> queue, received |-> 0, errors |-> 1]
    ELSE LET put == queue_put(queue, read)
         IN [result |-> IF put.suspended THEN "suspended" ELSE "True",
             queue |-> put.queue, received |-> 1, errors |-> 0]

\* process_read with reads_received incremented before the validation
process_read_counts_invalid(queue, read) ==
    IF ~validate_signal_strength(read.signal_strength)
    THEN [result |-> "False", queue |-> queue, received |-> 1, errors |-> 1]
    ELSE IF Len(queue) >= queue_size_limit
    THEN [result |-> "False", queue |-> queue, received |-> 1, errors |-> 0]
    ELSE LET put == queue_put(queue, read)
         IN [result |-> IF put.suspended THEN "suspended" ELSE "True",
             queue |-> put.queue, received |-> 1, errors |-> 0]

\* reads_received.inc() comes after the capacity check.
process_read_counts_accepted(queue, read) ==
    IF ~validate_signal_strength(read.signal_strength)
    THEN [result |-> "False", queue |-> queue, received |-> 0, errors |-> 1]
    ELSE IF Len(queue) >= queue_size_limit
    THEN [result |-> "False", queue |-> queue, received |-> 0, errors |-> 0]
    ELSE LET put == queue_put(queue, read)
         IN [result |-> IF put.suspended THEN "suspended" ELSE "True",
             queue |-> put.queue, received |-> 1, errors |-> 0]

\* process_read: what it returns (or "suspended" if it waits inside put), the
\* queue it leaves, and what it adds to reads_received and to
\* processing_errors{error_type='queue'}.
process_read(queue, read) ==
    IF ~validate_signal_strength(read.signal_strength)
    THEN \* ValueError, caught by the except clause
         [result |-> "False", queue |-> queue, received |-> 0, errors |-> 1]
    ELSE IF Len(queue) >= queue_size_limit
    THEN [result |-> "False", queue |-> queue, received |-> 1, errors |-> 0]
    ELSE LET put == queue_put(queue, read)
         IN [result |-> IF put.suspended THEN "suspended" ELSE "True",
             queue |-> put.queue, received |-> 1, errors |-> 0]

\* _process_batch: the filter, then the deduplicator on the filter's output.
_process_batch(cache, buf, current_time, reads) ==
    LET filtered_reads == apply_filters(cache, reads)
        deduplicated_reads == process_reads(buf, current_time, filtered_reads.out)
    IN [cache |-> filtered_reads.cache,
        buf |-> deduplicated_reads.buf,
        out |-> deduplicated_reads.out]

(***************************************************************************)
(* services/llrp_service.py                                                 *)
(***************************************************************************)
ReaderIds == {"R1", "R2"}

\* type(e).__name__ of the exceptions connect_reader can catch
ErrorTypes == {"KeyError", "ValueError", "ConnectionError", "TypeError"}

RECONNECT_ATTEMPTS == 3    \* max_tries of the backoff decorator
BATCH_TIMEOUT == 1         \* llrp_service.BATCH_TIMEOUT: 0.5 s, in half seconds
backoff_max_time == 60     \* max_time of the backoff decorator: 30 s, in half seconds

\* `await x` takes a coroutine, a Task or a Future; on anything else it raises
\* TypeError.  Reader.update_status is a plain method that returns a bool.
Awaitable(type) == type \in {"coroutine", "Task", "Future"}

\* tests/conftest.py, mock_reader: the side effect of the AsyncMock that
\* replaces reader.update_status.  It sets the status and appends an entry
\* whose old_status is read after the assignment; it checks no transition and
\* leaves last_heartbeat and the error count alone.
mock_update_status(reader, new_status, reason, current_time) ==
    [reader |->
        [reader EXCEPT
            !.status = new_status,
            !.status_history =
                Append(@, [timestamp |-> current_time, old_status |-> new_status,
                           new_status |-> new_status, reason |-> reason])],
     result |-> "True"]

\* `await reader.update_status(new_status, reason)`: the call runs first, then
\* its return value is awaited.  The method returns a bool; an AsyncMock
\* returns a coroutine, which runs the side effect when awaited.
await_update_status(reader, new_status, reason, current_time) ==
    LET up == IF update_status_attr = "AsyncMock"
              THEN mock_update_status(reader, new_status, reason, current_time)
              ELSE update_status(reader, new_status, reason, current_time)
        returned == IF update_status_attr = "AsyncMock" THEN "coroutine" ELSE "bool"
    IN [reader |-> up.reader,
        updated |-> up.result = "True",
        raised |-> IF up.result = "ValueError" THEN "ValueError"
                   ELSE IF ~Awaitable(returned) THEN "TypeError"
                   ELSE "none"]

\* connect_reader with the health check of lines 104-106 left out
connect_reader_unchecked(reader, id, readers, clients, llrp_outcome, current_time) ==
    LET body ==
            IF llrp_outcome # "ok"
            THEN [raised |-> llrp_outcome, reader |-> reader, readers |-> readers,
                  clients |-> clients, updates |-> 0, successes |-> 0]
            ELSE LET up == await_update_status(reader, "ONLINE", "Connected successfully",
                                               current_time)
                 IN [raised |-> up.raised, reader |-> up.reader,
                     readers |-> readers \cup {id}, clients |-> clients \cup {id},
                     updates |-> 1, successes |-> IF up.updated THEN 1 ELSE 0]
    IN IF body.raised = "none"
       THEN [result |-> "True", reader |-> body.reader, readers |-> body.readers,
             clients |-> body.clients, error_type |-> "none", spawned |-> 1,
             updates |-> body.updates, successes |-> body.successes]
       ELSE LET up == await_update_status(body.reader, "ERROR", "Connection failed",
                                          current_time)
            IN [result |-> IF up.raised # "none" THEN up.raised ELSE body.raised,
                reader |-> up.reader, readers |-> body.readers, clients |-> body.clients,
                error_type |-> body.raised, spawned |-> 0,
                updates |-> body.updates + 1,
                successes |-> body.successes + (IF up.updated THEN 1 ELSE 0)]

\* One attempt of connect_reader (the decorated function, without backoff) on
\* the reader `id`, the LLRP steps (client, tx power, ROSpec) ending as
\* llrp_outcome says: "True" or the exception that leaves it, the reader, the
\* registries, the error type counted, the tasks created and the update_status
\* calls made.  No circuit breaker is installed.
connect_reader(reader, id, readers, clients, llrp_outcome, current_time) ==
    LET health == is_healthy(reader, current_time)
        body ==
            IF health.raised # "none"
            THEN [raised |-> health.raised, reader |-> reader, readers |-> readers,
                  clients |-> clients, updates |-> 0, successes |-> 0]
            ELSE IF ~health.result[1].heartbeat_ok
            THEN [raised |-> "ValueError", reader |-> reader, readers |-> readers,
                  clients |-> clients, updates |-> 0, successes |-> 0]
            ELSE IF llrp_outcome # "ok"
            THEN [raised |-> llrp_outcome, reader |-> reader, readers |-> readers,
                  clients |-> clients, updates |-> 0, successes |-> 0]
            ELSE LET up == await_update_status(reader, "ONLINE", "Connected successfully",
                                               current_time)
                 IN [raised |-> up.raised, reader |-> up.reader,
                     readers |-> readers \cup {id}, clients |-> clients \cup {id},
                     updates |-> 1, successes |-> IF up.updated THEN 1 ELSE 0]
    IN IF body.raised = "none"
       THEN [result |-> "True", reader |-> body.reader, readers |-> body.readers,
             clients |-> body.clients, error_type |-> "none", spawned |-> 1,
             updates |-> body.updates, successes |-> body.successes]
       ELSE LET up == await_update_status(body.reader, "ERROR", "Connection failed",
                                          current_time)
            IN [result |-> IF up.raised # "none" THEN up.raised ELSE body.raised,
                reader |-> up.reader, readers |-> body.readers, clients |-> body.clients,
                error_type |-> body.raised, spawned |-> 0,
                updates |-> body.updates + 1,
                successes |-> body.successes + (IF up.updated THEN 1 ELSE 0)]

\* the methods class ReadProcessor defines
ReadProcessorMethods ==
    {"__init__", "_setup_metrics", "start", "stop", "process_read", "_process_batch",
     "_processing_loop", "_monitor_health", "_check_error_threshold"}

\* what LLRPService is constructed with: a ReadProcessor, or the Mock() of
\* tests/test_llrp_service.py
Processors == {"ReadProcessor", "Mock"}

\* getattr(processor, name) succeeds: a Mock creates any attribute on access
has_method(processor, name) == processor = "Mock" \/ name \in ReadProcessorMethods

\* report.get('EPCData', [])
EPCData(report) == IF "EPCData" \in DOMAIN report THEN report["EPCData"] ELSE <<>>

\* tag.get('PeakRSSI', -70)
PeakRSSI(tag) == IF "PeakRSSI" \in DOMAIN tag THEN tag["PeakRSSI"] ELSE -70

\* tag['EPC'] finds the key; without it the subscript raises KeyError
has_EPC(tag) == "EPC" \in DOMAIN tag

\* the EPCData entries of the reports in the order the two loops visit them
RECURSIVE report_tags(_)
report_tags(reports) ==
    IF reports = <<>> THEN <<>>
    ELSE EPCData(Head(reports)) \o report_tags(Tail(reports))

\* process_batch, the body of the inner loop: the read of one entry
tag_read(reader_id, current_time, tag) ==
    [rfid_tag |-> tag["EPC"],
     reader_id |-> reader_id,
     signal_strength |-> PeakRSSI(tag),
     read_time |-> current_time]

\* process_batch, the two loops: the reads of all the entries, in order; the
\* first entry without EPC raises KeyError and ends the conversion, with the
\* reads built so far left in the local list
convert_reports(reader_id, current_time, reports) ==
    LET tags == report_tags(reports)
        bad == {i \in 1..Len(tags) : ~has_EPC(tags[i])}
        built == IF bad = {} THEN Len(tags)
                 ELSE (CHOOSE i \in bad : \A j \in bad : i <= j) - 1
    IN [reads |-> [i \in 1..built |-> tag_read(reader_id, current_time, tags[i])],
        raised |-> IF bad = {} THEN "none" ELSE "KeyError"]

(***************************************************************************)
(* Initial state: the objects as their constructors leave them.             *)
(***************************************************************************)
EmptyDict == [k \in {} |-> <<>>]

BatchesOver(S, n) == UNION {[1..k -> S] : k \in 0..n}

Init ==
    /\ validation_cache = EmptyDict
    /\ f_phase = "idle"
    /\ f_batch = <<>>
    /\ f_out = <<>>
    /\ f_out2 = <<>>
    /\ read_buffer = EmptyDict
    /\ now = 0
    /\ d_batch = <<>>
    /\ d_out = <<>>
    /\ d_trace = <<>>
    /\ read_queue = <<>>
    /\ running = FALSE
    /\ processed_count = 0
    /\ reads_received = 0
    /\ reads_processed = 0
    /\ processing_errors = [error_type \in {"queue", "batch", "loop"} |-> 0]
    /\ queue_size = 0
    /\ loop_pc = [w \in Workers |-> "none"]
    /\ loop_batch = [w \in Workers |-> <<>>]
    /\ monitor_pc = [w \in Workers |-> "none"]
    /\ stop_pc = "idle"
    /\ stop_batch = <<>>
    /\ last_result = "none"
    /\ calls = 0
    /\ drops = 0
    /\ error_counts = EmptyDict
    /\ owed_in_queue = 0
    /\ owed_held = [w \in Workers |-> 0]
    /\ status = "OFFLINE"
    /\ status_history = <<InitialEntry(0, "OFFLINE")>>
    /\ last_heartbeat = 0
    /\ error_count = 0
    /\ update_call = [new_status |-> "none", reason |-> "none", result |-> "none"]
    /\ update_calls = 0
    /\ update_successes = 0
    /\ health_call = <<>>
    /\ llrp_readers = {}
    /\ llrp_clients = {}
    /\ connect_pc = "idle"
    /\ connect_tries = 0
    /\ connect_started = 0
    /\ connect_result = "none"
    /\ connect_calls = 0
    /\ connect_errors = [error_type \in ErrorTypes |-> 0]
    /\ handler_spawned = 0
    /\ read_arg = <<>>
    /\ read_call = <<>>
    /\ start_result = "none"
    /\ start_calls = 0
    /\ handler_pc = "none"
    /\ handler_batch = <<>>
    /\ last_process_time = 0
    /\ reports_received = 0
    /\ register_pc = "idle"
    /\ register_result = "none"
    /\ controller_readers = {}
    /\ processing_task_pc = "none"
    /\ update_status_attr = "method"
    /\ batch_reader_id = "none"
    /\ batch_reports = <<>>
    /\ batch_processor = "ReadProcessor"
    /\ processor_calls = 0
    /\ batch_reads = <<>>
    /\ connection_errors = [reader_id \in ReaderIds |-> 0]
    /\ read_rate = [reader_id \in ReaderIds |-> 0]

(***************************************************************************)
(* ReadFilter driven by a caller: apply_filters on a batch, then on its     *)
(* own output.                                                              *)
(***************************************************************************)
FilterSignals == {-80, -65, -45, -20}
FilterReads == {MkRead("T1", sig, 0) : sig \in FilterSignals}
FilterBatches == BatchesOver(FilterReads, MaxFilterBatch)

FilterApply(batch) ==
    /\ f_phase = "idle"
    /\ LET r == apply_filters(validation_cache, batch)
       IN /\ f_out' = r.out
          /\ validation_cache' = r.cache
    /\ f_batch' = batch
    /\ f_phase' = "once"
    /\ UNCHANGED <<f_out2, read_buffer, now, dedup_call_vars, pipe_vars, device_vars>>

FilterReapply ==
    /\ f_phase = "once"
    /\ LET r == apply_filters(validation_cache, f_out)
       IN /\ f_out2' = r.out
          /\ validation_cache' = r.cache
    /\ f_phase' = "twice"
    /\ UNCHANGED <<f_batch, f_out, read_buffer, now, dedup_call_vars, pipe_vars, device_vars>>

FilterReturn ==
    /\ f_phase = "twice"
    /\ f_phase' = "idle"
    /\ f_batch' = <<>>
    /\ f_out' = <<>>
    /\ f_out2' = <<>>
    /\ UNCHANGED <<validation_cache, read_buffer, now, dedup_call_vars, pipe_vars, device_vars>>

\* TTLCache drops an entry once it is older than its ttl.
CacheExpire ==
    /\ \E id \in DOMAIN validation_cache :
          validation_cache' = [i \in DOMAIN validation_cache \ {id} |-> validation_cache[i]]
    /\ UNCHANGED <<filter_call_vars, read_buffer, now, dedup_call_vars, pipe_vars, device_vars>>

NextFilter ==
    \/ \E batch \in FilterBatches : FilterApply(batch)
    \/ FilterReapply
    \/ FilterReturn
    \/ CacheExpire

SpecFilter == Init /\ [][NextFilter]_vars

(***************************************************************************)
(* ReadDeduplicator driven by a caller: process_reads calls while the       *)
(* clock advances.  The batches hold Read values, whose signal_strength     *)
(* Read.__post_init__ has checked to be in [-70, -20].                      *)
(***************************************************************************)
DedupReads ==
    {MkRead("T1", -50, 0), MkRead("T1", -48, 0), MkRead("T1", -47, 0),
     MkRead("T1", -50, 10), MkRead("T1", -50, 13), MkRead("T2", -50, 0)}

\* tag T at (t = 0.0, -50), (1.0, -51), (2.0, -47), (6.5, -50)
ScenarioBatch ==
    <<MkRead("T1", -50, 0), MkRead("T1", -51, 2), MkRead("T1", -47, 4), MkRead("T1", -50, 13)>>

\* three reads of one tag with equal signal inside the window
EqualSignalBatch ==
    <<MkRead("T1", -50, 0), MkRead("T1", -50, 10), MkRead("T1", -50, 0)>>

\* the scenario, then a read of a tag not seen before
CapBatch == ScenarioBatch \o <<MkRead("T2", -50, 0)>>

\* a duplicate in the middle, a signal difference equal to the threshold, two tags
MixedBatch ==
    <<MkRead("T1", -50, 0), MkRead("T1", -50, 10), MkRead("T2", -50, 0), MkRead("T1", -47, 0)>>

DedupBatches ==
    BatchesOver(DedupReads, MaxDedupBatch)
        \cup {ScenarioBatch, EqualSignalBatch, CapBatch, MixedBatch}

DedupCall(batch) ==
    /\ LET r == process_reads(read_buffer, now, batch)
       IN /\ read_buffer' = r.buf
          /\ d_out' = r.out
          /\ d_trace' = r.trace
    /\ d_batch' = batch
    /\ UNCHANGED <<now, validation_cache, filter_call_vars, pipe_vars, device_vars>>

Tick ==
    /\ now + time_window_seconds <= MaxNow
    /\ now' = now + time_window_seconds
    /\ UNCHANGED <<read_buffer, dedup_call_vars, validation_cache, filter_call_vars, pipe_vars, device_vars>>

NextDedup ==
    \/ \E batch \in DedupBatches : DedupCall(batch)
    \/ Tick

SpecDedup == Init /\ [][NextDedup]_vars

(***************************************************************************)
(* A Reader driven by callers of update_status while the clock advances.    *)
(***************************************************************************)
Reasons == {"Connected successfully", "Connection failed"}

UpdateStatus(new_status, reason) ==
    /\ update_calls < MaxUpdateCalls
    /\ update_calls' = update_calls + 1
    /\ LET r == update_status([status |-> status, status_history |-> status_history,
                               last_heartbeat |-> last_heartbeat,
                               error_count |-> error_count],
                              new_status, reason, now)
       IN /\ status' = r.reader.status
          /\ status_history' = r.reader.status_history
          /\ last_heartbeat' = r.reader.last_heartbeat
          /\ error_count' = r.reader.error_count
          /\ update_call' = [new_status |-> new_status, reason |-> reason, result |-> r.result]
          /\ update_successes' = IF r.result = "True" THEN update_successes + 1
                                  ELSE update_successes
    /\ UNCHANGED <<validation_cache, filter_call_vars, read_buffer, now, dedup_call_vars,
                   pipe_vars, lifecycle_vars, read_vars, observer_vars, update_status_attr,
                   health_vars, connect_vars, handler_vars, register_vars, adapter_vars>>

TheReader ==
    [status |-> status, status_history |-> status_history,
     last_heartbeat |-> last_heartbeat, error_count |-> error_count]

IsHealthy ==
    /\ health_call' = is_healthy(TheReader, now)
    /\ UNCHANGED <<validation_cache, filter_call_vars, read_buffer, now, dedup_call_vars,
                   pipe_vars, lifecycle_vars, read_vars, observer_vars, reader_vars, connect_vars, handler_vars, register_vars, adapter_vars>>

NextReader ==
    \/ \E new_status \in ReaderStatus, reason \in Reasons : UpdateStatus(new_status, reason)
    \/ IsHealthy
    \/ Tick

SpecReader == Init /\ [][NextReader]_vars

(***************************************************************************)
(* The pipeline: producers calling process_read, start() and stop(), the    *)
(* _processing_loop and _monitor_health tasks.  The tasks are coroutines of  *)
(* one event loop: a task runs alone from one suspension point to the next.  *)
(* Suspension points: wait_for(queue.get()), asyncio.sleep, and the gather   *)
(* inside apply_filters (so _process_batch is entered in one step and        *)
(* finished in a later one).  queue.get() on a non-empty queue and           *)
(* queue.put() on a non-full queue do not suspend.                           *)
(***************************************************************************)
PipelineReads ==
    {MkRead("T1", -20, 0), MkRead("T2", -20, 0), MkRead("T1", -65, 0), MkRead("T1", -80, 0)}

ProcessRead(read) ==
    /\ calls < MaxCalls
    /\ calls' = calls + 1
    /\ LET r == process_read(read_queue, read)
       IN /\ read_queue' = r.queue
          /\ reads_received' = reads_received + r.received
          /\ processing_errors' = [processing_errors EXCEPT !["queue"] = @ + r.errors]
          /\ queue_size' = IF r.result = "True" THEN Len(r.queue) ELSE queue_size
          /\ last_result' = r.result
          /\ drops' = IF validate_signal_strength(read.signal_strength) /\ r.result = "False"
                      THEN drops + 1 ELSE drops
    /\ UNCHANGED <<validation_cache, filter_call_vars, read_buffer, now, dedup_call_vars,
                   running, processed_count, reads_processed, task_vars, error_counts,
                   drain_vars, device_vars>>

\* process_read, with the argument kept for the caller that looks at the
\* outcome.
ProcessReadCall(read) ==
    /\ calls < MaxCalls
    /\ calls' = calls + 1
    /\ read_arg' = <<read>>
    /\ LET r == process_read(read_queue, read)
       IN /\ read_queue' = r.queue
          /\ reads_received' = reads_received + r.received
          /\ processing_errors' = [processing_errors EXCEPT !["queue"] = @ + r.errors]
          /\ queue_size' = IF r.result = "True" THEN Len(r.queue) ELSE queue_size
          /\ last_result' = r.result
          /\ drops' = IF validate_signal_strength(read.signal_strength) /\ r.result = "False"
                      THEN drops + 1 ELSE drops
    /\ UNCHANGED <<validation_cache, filter_call_vars, read_buffer, now, dedup_call_vars,
                   running, processed_count, reads_processed, task_vars, error_counts,
                   drain_vars, reader_vars, health_vars, connect_vars, handler_vars,
                   register_vars, adapter_vars, lifecycle_vars, read_vars>>

FreeWorkers ==
    {w \in Workers : loop_pc[w] = "none" /\ monitor_pc[w] = "none"}

\* start() without the check of _running
start_unguarded(is_running, loops, monitors) ==
    LET free == {w \in Workers : loops[w] = "none" /\ monitors[w] = "none"}
    IN IF free = {}
       THEN [raised |-> "none", running |-> TRUE, loop_pc |-> loops, monitor_pc |-> monitors]
       ELSE LET w == CHOOSE w \in free : \A v \in free : w <= v
            IN [raised |-> "none",
                running |-> TRUE,
                loop_pc |-> [loops EXCEPT ![w] = "top"],
                monitor_pc |-> [monitors EXCEPT ![w] = "top"]]

\* start(): RuntimeError if running; else _running is set and two tasks are
\* created, _processing_loop and _monitor_health, here those of the lowest
\* free worker.
start(is_running, loops, monitors) ==
    LET free == {w \in Workers : loops[w] = "none" /\ monitors[w] = "none"}
    IN IF is_running
       THEN [raised |-> "RuntimeError",
             running |-> is_running, loop_pc |-> loops, monitor_pc |-> monitors]
       ELSE LET w == CHOOSE w \in free : \A v \in free : w <= v
            IN [raised |-> "none",
                running |-> TRUE,
                loop_pc |-> [loops EXCEPT ![w] = "top"],
                monitor_pc |-> [monitors EXCEPT ![w] = "top"]]

\* start(): RuntimeError if running, else two new tasks.
Start ==
    /\ running \/ FreeWorkers # {}
    /\ LET call == start(running, loop_pc, monitor_pc)
       IN /\ running' = call.running
          /\ loop_pc' = call.loop_pc
          /\ monitor_pc' = call.monitor_pc
    /\ UNCHANGED <<validation_cache, filter_call_vars, read_buffer, now, dedup_call_vars,
                   read_queue, metric_vars, loop_batch, stop_pc, stop_batch, ingress_vars,
                   error_counts, drain_vars, device_vars>>

\* start(), with the outcome the caller sees: None, or the RuntimeError.
StartCall ==
    /\ running \/ FreeWorkers # {}
    /\ start_calls < MaxStartCalls
    /\ LET call == start(running, loop_pc, monitor_pc)
       IN /\ running' = call.running
          /\ loop_pc' = call.loop_pc
          /\ monitor_pc' = call.monitor_pc
          /\ start_result' = IF call.raised = "none" THEN "None" ELSE call.raised
    /\ start_calls' = start_calls + 1
    /\ UNCHANGED <<validation_cache, filter_call_vars, read_buffer, now, dedup_call_vars,
                   read_queue, metric_vars, loop_batch, stop_pc, stop_batch, ingress_vars,
                   error_counts, drain_vars, reader_vars, health_vars, connect_vars,
                   handler_vars, register_vars, adapter_vars, read_vars, observer_vars>>

\* while not empty and len(batch) < BATCH_SIZE: batch.append(await get())
drain(queue) ==
    LET n == Min(BATCH_SIZE, Len(queue))
    IN [batch |-> SubSeq(queue, 1, n), queue |-> SubSeq(queue, n + 1, Len(queue))]

\* stop(): clears _running; returns if the queue is empty, else takes the first
\* batch and enters _process_batch.
Stop ==
    /\ stop_pc = "idle"
    /\ running' = FALSE
    /\ IF read_queue = <<>>
       THEN UNCHANGED <<read_queue, stop_pc, stop_batch>>
       ELSE /\ read_queue' = drain(read_queue).queue
            /\ stop_batch' = drain(read_queue).batch
            /\ stop_pc' = "process"
    /\ owed_in_queue' = Len(read_queue')
    /\ UNCHANGED <<validation_cache, filter_call_vars, read_buffer, now, dedup_call_vars,
                   metric_vars, loop_pc, loop_batch, monitor_pc, ingress_vars, error_counts,
                   owed_held, device_vars>>

\* stop(): `while not self._read_queue.empty()` after a batch: the next batch,
\* or return.
stop_next ==
    IF read_queue = <<>>
    THEN /\ stop_pc' = "idle"
         /\ stop_batch' = <<>>
         /\ UNCHANGED <<read_queue, owed_in_queue>>
    ELSE /\ read_queue' = drain(read_queue).queue
         /\ stop_batch' = drain(read_queue).batch
         /\ owed_in_queue' = IF owed_in_queue > Len(stop_batch')
                             THEN owed_in_queue - Len(stop_batch') ELSE 0
         /\ UNCHANGED stop_pc

\* stop(): _process_batch finishes; then the next batch, or return.
StopProcess ==
    /\ stop_pc = "process"
    /\ LET r == _process_batch(validation_cache, read_buffer, now, stop_batch)
       IN /\ validation_cache' = r.cache
          /\ read_buffer' = r.buf
          /\ processed_count' = processed_count + Len(r.out)
          /\ reads_processed' = reads_processed + Len(r.out)
    /\ stop_next
    /\ UNCHANGED <<filter_call_vars, now, dedup_call_vars, running, reads_received,
                   processing_errors, queue_size, loop_pc, loop_batch, monitor_pc,
                   ingress_vars, error_counts, owed_held, device_vars>>

\* stop(): _process_batch raises; the except clause of stop() logs the error
\* and the drain goes on with the next batch.
StopProcessFails ==
    /\ stop_pc = "process"
    /\ processing_errors["batch"] < MaxFailures
    /\ processing_errors' = [processing_errors EXCEPT !["batch"] = @ + 1]
    /\ stop_next
    /\ UNCHANGED <<validation_cache, filter_call_vars, read_buffer, now, dedup_call_vars,
                   running, processed_count, reads_received, reads_processed, queue_size,
                   loop_pc, loop_batch, monitor_pc, ingress_vars, error_counts, owed_held,
                   device_vars>>

\* LoopTop with `while True`: the task never looks at _running.
LoopTop_never_exits(w) ==
    /\ loop_pc[w] \in {"top", "cooldown"}
    /\ loop_pc' = [loop_pc EXCEPT ![w] = "collect"]
    /\ loop_batch' = [loop_batch EXCEPT ![w] = <<>>]
    /\ UNCHANGED <<validation_cache, filter_call_vars, read_buffer, now, dedup_call_vars,
                   read_queue, running, metric_vars, monitor_pc, stop_pc, stop_batch,
                   ingress_vars, error_counts, drain_vars, device_vars>>

\* _processing_loop: `while self._running`, at task start and after each sleep
\* (the pause of an iteration, or the pause after a tripped threshold check).
LoopTop(w) ==
    /\ loop_pc[w] \in {"top", "cooldown"}
    /\ loop_pc' = [loop_pc EXCEPT ![w] = IF running THEN "collect" ELSE "none"]
    /\ loop_batch' = [loop_batch EXCEPT ![w] = <<>>]
    /\ UNCHANGED <<validation_cache, filter_call_vars, read_buffer, now, dedup_call_vars,
                   read_queue, running, metric_vars, monitor_pc, stop_pc, stop_batch,
                   ingress_vars, error_counts, drain_vars, device_vars>>

\* LoopGet with the read left in the queue (a peek in place of get()).
LoopGet_peeks(w) ==
    /\ loop_pc[w] = "collect"
    /\ read_queue # <<>>
    /\ read_queue' = read_queue
    /\ loop_batch' = [loop_batch EXCEPT ![w] = Append(@, Head(read_queue))]
    /\ loop_pc' = [loop_pc EXCEPT ![w] =
                      IF Len(loop_batch[w]) + 1 < BATCH_SIZE THEN "collect" ELSE "process"]
    /\ IF owed_in_queue > 0
       THEN /\ owed_in_queue' = owed_in_queue - 1
            /\ owed_held' = [owed_held EXCEPT ![w] = @ + 1]
       ELSE UNCHANGED drain_vars
    /\ UNCHANGED <<validation_cache, filter_call_vars, read_buffer, now, dedup_call_vars,
                   running, metric_vars, monitor_pc, stop_pc, stop_batch, ingress_vars,
                   error_counts, device_vars>>

\* _processing_loop: wait_for(queue.get()) returns a read.
LoopGet(w) ==
    /\ loop_pc[w] = "collect"
    /\ read_queue # <<>>
    /\ read_queue' = Tail(read_queue)
    /\ loop_batch' = [loop_batch EXCEPT ![w] = Append(@, Head(read_queue))]
    /\ loop_pc' = [loop_pc EXCEPT ![w] =
                      IF Len(loop_batch[w]) + 1 < BATCH_SIZE THEN "collect" ELSE "process"]
    /\ IF owed_in_queue > 0
       THEN /\ owed_in_queue' = owed_in_queue - 1
            /\ owed_held' = [owed_held EXCEPT ![w] = @ + 1]
       ELSE UNCHANGED drain_vars
    /\ UNCHANGED <<validation_cache, filter_call_vars, read_buffer, now, dedup_call_vars,
                   running, metric_vars, monitor_pc, stop_pc, stop_batch, ingress_vars,
                   error_counts, device_vars>>

\* _processing_loop: wait_for times out on an empty queue; a partial batch is
\* processed, an empty one goes to the gauge update and the sleep.
LoopTimeout(w) ==
    /\ loop_pc[w] = "collect"
    /\ read_queue = <<>>
    /\ IF loop_batch[w] # <<>>
       THEN /\ loop_pc' = [loop_pc EXCEPT ![w] = "process"]
            /\ UNCHANGED queue_size
       ELSE /\ loop_pc' = [loop_pc EXCEPT ![w] = "top"]
            /\ queue_size' = Len(read_queue)
    /\ UNCHANGED <<validation_cache, filter_call_vars, read_buffer, now, dedup_call_vars,
                   read_queue, running, processed_count, reads_received, reads_processed,
                   processing_errors, loop_batch, monitor_pc, stop_pc, stop_batch,
                   ingress_vars, error_counts, drain_vars, device_vars>>

\* _processing_loop: _process_batch finishes, the gauge is set, the task sleeps.
LoopProcess(w) ==
    /\ loop_pc[w] = "process"
    /\ LET r == _process_batch(validation_cache, read_buffer, now, loop_batch[w])
       IN /\ validation_cache' = r.cache
          /\ read_buffer' = r.buf
          /\ processed_count' = processed_count + Len(r.out)
          /\ reads_processed' = reads_processed + Len(r.out)
    /\ queue_size' = Len(read_queue)
    /\ loop_pc' = [loop_pc EXCEPT ![w] = "top"]
    /\ loop_batch' = [loop_batch EXCEPT ![w] = <<>>]
    /\ owed_held' = [owed_held EXCEPT ![w] = 0]
    /\ UNCHANGED <<filter_call_vars, now, dedup_call_vars, read_queue, running,
                   reads_received, processing_errors, monitor_pc, stop_pc, stop_batch,
                   ingress_vars, error_counts, owed_in_queue, device_vars>>

\* _processing_loop: _process_batch raises.  Its except clause counts a 'batch'
\* error and re-raises; the except clause of the loop counts a 'loop' error,
\* asks _check_error_threshold and pauses if it answers True.  The batch is
\* not retried.
LoopProcessFails(w) ==
    /\ loop_pc[w] = "process"
    /\ processing_errors["batch"] < MaxFailures
    /\ processing_errors' = [processing_errors EXCEPT !["batch"] = @ + 1, !["loop"] = @ + 1]
    /\ loop_pc' = [loop_pc EXCEPT ![w] =
                      IF _check_error_threshold(error_counts, processed_count)
                      THEN "cooldown" ELSE "top"]
    /\ loop_batch' = [loop_batch EXCEPT ![w] = <<>>]
    /\ owed_held' = [owed_held EXCEPT ![w] = 0]
    /\ UNCHANGED <<validation_cache, filter_call_vars, read_buffer, now, dedup_call_vars,
                   read_queue, running, processed_count, reads_received, reads_processed,
                   queue_size, monitor_pc, stop_pc, stop_batch, ingress_vars, error_counts,
                   owed_in_queue, device_vars>>

\* _monitor_health: `while self._running`, at task start and after each sleep;
\* an iteration only logs.
Monitor(w) ==
    /\ monitor_pc[w] = "top"
    /\ monitor_pc' = [monitor_pc EXCEPT ![w] = IF running THEN "top" ELSE "none"]
    /\ UNCHANGED <<validation_cache, filter_call_vars, read_buffer, now, dedup_call_vars,
                   read_queue, running, metric_vars, loop_pc, loop_batch, stop_pc,
                   stop_batch, ingress_vars, error_counts, drain_vars, device_vars>>

Next ==
    \/ \E read \in PipelineReads : ProcessRead(read)
    \/ Start
    \/ Stop
    \/ StopProcess
    \/ StopProcessFails
    \/ \E w \in Workers : LoopTop(w)
    \/ \E w \in Workers : LoopGet(w)
    \/ \E w \in Workers : LoopTimeout(w)
    \/ \E w \in Workers : LoopProcess(w)
    \/ \E w \in Workers : LoopProcessFails(w)
    \/ \E w \in Workers : Monitor(w)
    \/ Tick

Spec == Init /\ [][Next]_vars

\* The event loop runs every task that is ready, and every timeout and sleep
\* expires: a worker task that can take a step eventually takes it.  A task
\* inside _process_batch eventually leaves it, by return or by exception;
\* that step always changes loop_pc[w], so weak fairness of it is the
\* recurrence of loop_pc[w] # "process".
Fairness ==
    \A w \in Workers :
        /\ WF_vars(LoopTop(w))
        /\ WF_vars(LoopGet(w))
        /\ WF_vars(LoopTimeout(w))
        /\ []<>(loop_pc[w] # "process")
        /\ WF_vars(Monitor(w))

FairSpec == Spec /\ Fairness

\* tests/test_read_processor.py, test_error_handling: the test assigns
\* _error_counts = {'processing': int(1 / ERROR_THRESHOLD) + 1} on a started
\* processor.
SetErrorCounts ==
    /\ error_counts = EmptyDict
    /\ error_counts' = [key \in {"processing"} |-> 101]
    /\ UNCHANGED <<validation_cache, filter_call_vars, read_buffer, now, dedup_call_vars,
                   read_queue, running, metric_vars, task_vars, ingress_vars, drain_vars,
                   device_vars>>

NextBreaker == Next \/ SetErrorCounts

SpecBreaker == Init /\ [][NextBreaker]_vars

\* start() and stop() called by a caller that looks at the outcome, with reads
\* coming in and the tasks running to their next check of _running.
NextLifecycle ==
    \/ StartCall
    \/ Stop
    \/ StopProcess
    \/ \E read \in PipelineReads : ProcessRead(read)
    \/ \E w \in Workers : LoopTop(w)
    \/ \E w \in Workers : LoopTimeout(w)
    \/ \E w \in Workers : Monitor(w)

SpecLifecycle == Init /\ [][NextLifecycle]_vars

\* process_read called by producers that look at what it returned, while the
\* started pipeline consumes the queue.
NextIngress ==
    \/ \E read \in PipelineReads : ProcessReadCall(read)
    \/ Start
    \/ \E w \in Workers : LoopTop(w)
    \/ \E w \in Workers : LoopGet(w)
    \/ \E w \in Workers : LoopTimeout(w)
    \/ \E w \in Workers : LoopProcess(w)
    \/ \E w \in Workers : Monitor(w)

SpecIngress == Init /\ [][NextIngress]_vars

\* A producer offers three reads that differ from one another, one after the
\* other, so that the order in which they were accepted can be read off the
\* reads themselves.
OrderedReads == <<MkRead("T1", -20, 0), MkRead("T2", -20, 0), MkRead("T1", -65, 0)>>

OfferNext ==
    \E i \in 1..Len(OrderedReads) : calls = i - 1 /\ ProcessRead(OrderedReads[i])

NextOrder ==
    \/ OfferNext
    \/ Start
    \/ Stop
    \/ StopProcess
    \/ \E w \in Workers : LoopTop(w)
    \/ \E w \in Workers : LoopGet(w)
    \/ \E w \in Workers : LoopTimeout(w)
    \/ \E w \in Workers : LoopProcess(w)
    \/ \E w \in Workers : Monitor(w)

SpecOrder == Init /\ [][NextOrder]_vars

\* The same with the scheduling of the event loop: a task that can take its
\* next step takes it, and a _process_batch that was entered is left again.
LiveOrder ==
    /\ SpecOrder
    /\ \A w \in Workers :
          /\ WF_vars(LoopTop(w))
          /\ WF_vars(LoopGet(w))
          /\ WF_vars(LoopTimeout(w))
          /\ []<>(loop_pc[w] # "process")
    /\ []<>(stop_pc # "process")

(***************************************************************************)
(* models/read.py: Read objects constructed from tag strings, reader ids    *)
(* and signal strengths around the limits.                                  *)
(***************************************************************************)
\* n copies of a character
Repeat(char, n) == [i \in 1..n |-> char]

TagChars == {"A", "f", "0", "G"}

TagTails == {<<>>, <<"\n">>, <<"G">>, <<"A">>}

TagStrings ==
    {Repeat(char, n) \o tail :
        char \in TagChars, n \in {TagLength - 1, TagLength}, tail \in TagTails}

ReaderIdStrings == {<<>>, <<" ">>, <<"R", "1">>, <<" ", "R", "1", "\n">>}

ReadSignals == {MIN_SIGNAL_STRENGTH - 1, MIN_SIGNAL_STRENGTH, -45,
                MAX_SIGNAL_STRENGTH, MAX_SIGNAL_STRENGTH + 1}

ConstructRead(rfid_tag, reader_id, signal_strength) ==
    /\ read_call' = [rfid_tag |-> rfid_tag,
                     reader_id |-> reader_id,
                     signal_strength |-> signal_strength,
                     outcome |-> Read(rfid_tag, reader_id, signal_strength)]
    /\ UNCHANGED <<validation_cache, filter_call_vars, read_buffer, now, dedup_call_vars,
                   pipe_vars, reader_vars, health_vars, connect_vars, handler_vars,
                   register_vars, adapter_vars, lifecycle_vars, observer_vars>>

NextRead ==
    \E rfid_tag \in TagStrings, reader_id \in ReaderIdStrings, signal_strength \in ReadSignals :
        ConstructRead(rfid_tag, reader_id, signal_strength)

SpecRead == Init /\ [][NextRead]_vars

(***************************************************************************)
(* LLRPService.process_batch called with reports of a reader, next to       *)
(* callers of ReadProcessor.process_read.                                   *)
(***************************************************************************)
Tags == {[EPC |-> "T1"], [EPC |-> "T2", PeakRSSI |-> -45], [EPC |-> "T3", PeakRSSI |-> -71],
         [PeakRSSI |-> -45]}

Reports == {<<>>} \cup {[EPCData |-> tags] : tags \in BatchesOver(Tags, MaxTags)}

\* process_batch: the reads are built, none is dropped for its signal
\* strength; an entry without EPC raises KeyError inside the try and ends the
\* call in the except clause.  If there are reads,
\* self._processor.process_batch(reads) is awaited.  A ReadProcessor has no such method: AttributeError, nothing is
\* called.  A Mock records the call and returns a Mock, which `await`
\* rejects with TypeError.  Either way the except clause counts a
\* 'processing' connection error, and read_rate, incremented only after the
\* await, stays.
process_batch(processor, reader_id, reports) ==
    /\ LET converted == convert_reports(reader_id, now, reports)
           reads == converted.reads
           submit == converted.raised = "none" /\ reads # <<>>
           called == submit /\ has_method(processor, "process_batch")
           returned == "Mock"    \* the only processor with the method returns a Mock
           raised == converted.raised # "none"
                        \/ (submit /\ (~called \/ ~Awaitable(returned)))
       IN /\ batch_reads' = reads
          /\ processor_calls' = processor_calls + (IF called THEN 1 ELSE 0)
          /\ connection_errors' =
                 IF raised THEN [connection_errors EXCEPT ![reader_id] = @ + 1]
                 ELSE connection_errors
          /\ read_rate' =
                 IF submit /\ ~raised
                 THEN [read_rate EXCEPT ![reader_id] = @ + Len(reads)]
                 ELSE read_rate
    /\ batch_processor' = processor
    /\ batch_reader_id' = reader_id
    /\ batch_reports' = reports

LLRPProcessBatch(processor, reader_id, reports) ==
    /\ connection_errors[reader_id] < MaxBatchErrors
    /\ process_batch(processor, reader_id, reports)
    /\ UNCHANGED <<validation_cache, filter_call_vars, read_buffer, now, dedup_call_vars,
                   pipe_vars, lifecycle_vars, read_vars, observer_vars, reader_vars, health_vars, connect_vars, handler_vars,
                   register_vars>>

NextAdapter ==
    \/ \E processor \in Processors, reader_id \in ReaderIds,
          reports \in BatchesOver(Reports, MaxReports) :
           LLRPProcessBatch(processor, reader_id, reports)
    \/ \E read \in PipelineReads : ProcessRead(read)

SpecAdapter == Init /\ [][NextAdapter]_vars

(***************************************************************************)
(* LLRPService.connect_reader called for the reader, while other callers    *)
(* update its status and the clock advances.                                *)
(***************************************************************************)
TheReaderId == "R1"

\* LLRPService.__init__(processor: ReadProcessor): the service that runs the
\* reader's receive loop holds a ReadProcessor
TheProcessor == "ReadProcessor"

LLRPOutcomes == {"ok", "ConnectionError"}

OperatorReason == "Operator request"

\* connect_reader is called: backoff starts its first attempt.
ConnectReader ==
    /\ connect_pc = "idle"
    /\ connect_calls < MaxConnectCalls
    /\ connect_calls' = connect_calls + 1
    /\ connect_pc' = "attempt"
    /\ connect_tries' = 0
    /\ connect_started' = now
    /\ connect_result' = "none"
    /\ UNCHANGED <<validation_cache, filter_call_vars, read_buffer, now, dedup_call_vars,
                   pipe_vars, lifecycle_vars, read_vars, observer_vars, reader_vars, health_vars, llrp_readers, llrp_clients,
                   connect_errors, handler_spawned, handler_vars, register_vars, adapter_vars>>

\* register_reader, up to its first suspension: the health check of the
\* controller; a KeyError of is_healthy and the HTTPException(400) both land
\* in `except Exception`, which raises HTTPException(500).  If the check
\* passes, connect_reader is called and awaited.
RegisterReader ==
    /\ register_pc = "idle"
    /\ connect_pc = "idle"
    /\ connect_calls < MaxConnectCalls
    /\ LET health_status == is_healthy(TheReader, now)
           rejected == \/ health_status.raised # "none"
                       \/ ~health_status.result[1].heartbeat_ok
       IN IF rejected
          THEN /\ register_result' = "HTTPException"
               /\ UNCHANGED <<register_pc, connect_pc, connect_tries, connect_started,
                              connect_result, connect_calls>>
          ELSE /\ register_pc' = "connecting"
               /\ register_result' = "none"
               /\ connect_calls' = connect_calls + 1
               /\ connect_pc' = "attempt"
               /\ connect_tries' = 0
               /\ connect_started' = now
               /\ connect_result' = "none"
    /\ UNCHANGED <<validation_cache, filter_call_vars, read_buffer, now, dedup_call_vars,
                   pipe_vars, lifecycle_vars, read_vars, observer_vars, reader_vars, health_vars, llrp_readers, llrp_clients,
                   connect_errors, handler_spawned, handler_vars, controller_readers,
                   processing_task_pc, adapter_vars>>

\* One attempt.  backoff returns what the function returns; on an exception
\* it gives up when the tries reach max_tries or the time spent reaches
\* max_time, and sleeps before the next attempt otherwise.
ConnectAttempt(llrp_outcome) ==
    /\ connect_pc = "attempt"
    /\ LET r == connect_reader(TheReader, TheReaderId, llrp_readers, llrp_clients,
                               llrp_outcome, now)
           tries == connect_tries + 1
           give_up == tries = RECONNECT_ATTEMPTS \/ now - connect_started >= backoff_max_time
       IN /\ status' = r.reader.status
          /\ status_history' = r.reader.status_history
          /\ last_heartbeat' = r.reader.last_heartbeat
          /\ error_count' = r.reader.error_count
          /\ update_calls' = update_calls + r.updates
          /\ update_successes' = update_successes + r.successes
          /\ llrp_readers' = r.readers
          /\ llrp_clients' = r.clients
          /\ connect_errors' =
                 IF r.error_type = "none" THEN connect_errors
                 ELSE [connect_errors EXCEPT ![r.error_type] = @ + 1]
          /\ handler_spawned' = handler_spawned + r.spawned
          /\ connect_tries' = tries
          /\ connect_pc' = IF r.result = "True" \/ give_up THEN "idle" ELSE "wait"
          /\ connect_result' = IF r.result = "True" \/ give_up THEN r.result ELSE "none"
          \* register_reader resumes when the call it awaits ends: it stores the
          \* reader and its processing task after True, raises otherwise
          /\ IF register_pc = "connecting" /\ (r.result = "True" \/ give_up)
             THEN /\ register_pc' = "idle"
                  /\ register_result' = IF r.result = "True" THEN "Reader" ELSE "HTTPException"
                  /\ controller_readers' = IF r.result = "True"
                                           THEN controller_readers \cup {TheReaderId}
                                           ELSE controller_readers
                  /\ processing_task_pc' = IF r.result = "True" THEN "created"
                                           ELSE processing_task_pc
             ELSE UNCHANGED register_vars
    /\ UNCHANGED <<validation_cache, filter_call_vars, read_buffer, now, dedup_call_vars,
                   pipe_vars, lifecycle_vars, read_vars, observer_vars, update_call, update_status_attr,
                   health_vars, connect_started, connect_calls,
                   handler_vars, adapter_vars>>

\* backoff's sleep ends.
ConnectRetry ==
    /\ connect_pc = "wait"
    /\ connect_pc' = "attempt"
    /\ UNCHANGED <<validation_cache, filter_call_vars, read_buffer, now, dedup_call_vars,
                   pipe_vars, lifecycle_vars, read_vars, observer_vars, reader_vars, health_vars, llrp_readers, llrp_clients,
                   connect_tries, connect_started, connect_result, connect_calls,
                   connect_errors, handler_spawned, handler_vars, register_vars, adapter_vars>>

NextConnect ==
    \/ ConnectReader
    \/ RegisterReader
    \/ \E llrp_outcome \in LLRPOutcomes : ConnectAttempt(llrp_outcome)
    \/ ConnectRetry
    \/ \E new_status \in ReaderStatus : UpdateStatus(new_status, OperatorReason)
    \/ Tick

SpecConnect == Init /\ [][NextConnect]_vars

(***************************************************************************)
(* LLRPService._handle_reads: the receive loop of one reader.               *)
(***************************************************************************)
\* _handle_reads is called for the reader (connect_reader would create it as a
\* task; the tests call it directly).  The loop runs while the reader has a
\* client; without one the function returns at once.  It is called between
\* connect_reader calls, not in the middle of one.
HandleReads ==
    /\ handler_pc = "none"
    /\ connect_pc = "idle"
    /\ handler_pc' = IF TheReaderId \in llrp_clients THEN "receiving" ELSE "returned"
    /\ handler_batch' = <<>>
    /\ last_process_time' = now
    /\ UNCHANGED <<validation_cache, filter_call_vars, read_buffer, now, dedup_call_vars,
                   pipe_vars, lifecycle_vars, read_vars, observer_vars, reader_vars, health_vars, connect_vars, reports_received,
                   register_vars, adapter_vars>>

HandlerReports == {<<>>, [EPCData |-> <<[EPC |-> "T1"]>>]}

\* _handle_reads: receive_report returns; a report that is not empty joins the
\* batch; a full or overdue batch goes to process_batch.
HandleReport(report) ==
    /\ handler_pc = "receiving"
    /\ reports_received < MaxReceived
    /\ reports_received' = reports_received + 1
    /\ LET batch == IF report # <<>> THEN Append(handler_batch, report) ELSE handler_batch
           due == Len(batch) >= AdapterBatchSize \/ now - last_process_time >= BATCH_TIMEOUT
       IN IF due /\ batch # <<>>
          THEN /\ connection_errors[TheReaderId] < MaxBatchErrors
               /\ process_batch(TheProcessor, TheReaderId, batch)
               /\ handler_batch' = <<>>
               /\ last_process_time' = now
          ELSE /\ handler_batch' = batch
               /\ UNCHANGED <<last_process_time, adapter_vars>>
    /\ UNCHANGED <<validation_cache, filter_call_vars, read_buffer, now, dedup_call_vars,
                   pipe_vars, lifecycle_vars, read_vars, observer_vars, reader_vars, health_vars, connect_vars, handler_pc,
                   register_vars>>

\* _handle_reads: receive_report raises.  The except clause awaits
\* update_status(ERROR); an exception of that line leaves the function, so
\* neither `break` nor the final process_batch of the batch is reached.
HandleTransportError ==
    /\ handler_pc = "receiving"
    /\ LET up == await_update_status(TheReader, "ERROR", "Read handling error", now)
       IN /\ status' = up.reader.status
          /\ status_history' = up.reader.status_history
          /\ last_heartbeat' = up.reader.last_heartbeat
          /\ error_count' = up.reader.error_count
          /\ update_calls' = update_calls + 1
          /\ update_successes' = update_successes + (IF up.updated THEN 1 ELSE 0)
          /\ IF up.raised # "none"
             THEN /\ handler_pc' = "raised"
                  /\ UNCHANGED <<handler_batch, last_process_time, adapter_vars>>
             ELSE /\ handler_pc' = "returned"
                  /\ handler_batch' = <<>>
                  /\ UNCHANGED last_process_time
                  /\ IF handler_batch # <<>>
                     THEN process_batch(TheProcessor, TheReaderId, handler_batch)
                     ELSE UNCHANGED adapter_vars
    /\ UNCHANGED <<validation_cache, filter_call_vars, read_buffer, now, dedup_call_vars,
                   pipe_vars, lifecycle_vars, read_vars, observer_vars, update_call, update_status_attr,
                   health_vars, connect_vars, reports_received,
                   register_vars>>

NextHandler ==
    \/ ConnectReader
    \/ \E llrp_outcome \in LLRPOutcomes : ConnectAttempt(llrp_outcome)
    \/ ConnectRetry
    \/ HandleReads
    \/ \E report \in HandlerReports : HandleReport(report)
    \/ HandleTransportError
    \/ \E new_status \in ReaderStatus : UpdateStatus(new_status, OperatorReason)
    \/ Tick

SpecHandler == Init /\ [][NextHandler]_vars

(***************************************************************************)
(* register_reader called with the mock_reader of tests/conftest.py: a      *)
(* Reader whose update_status is an AsyncMock, so that it can be awaited.   *)
(***************************************************************************)
\* The fixture: on a new Reader it replaces update_status by the AsyncMock
\* and awaits update_status(ONLINE, "Test initialization").
MockReader ==
    /\ update_status_attr = "method"
    /\ update_calls = 0
    /\ connect_calls = 0
    /\ update_status_attr' = "AsyncMock"
    /\ LET up == mock_update_status(TheReader, "ONLINE", "Test initialization", now)
       IN /\ status' = up.reader.status
          /\ status_history' = up.reader.status_history
          /\ update_call' = [new_status |-> "ONLINE", reason |-> "Test initialization",
                             result |-> up.result]
    /\ update_calls' = update_calls + 1
    /\ update_successes' = update_successes + 1
    /\ UNCHANGED <<validation_cache, filter_call_vars, read_buffer, now, dedup_call_vars,
                   pipe_vars, lifecycle_vars, read_vars, observer_vars, last_heartbeat,
                   error_count, health_vars, connect_vars, handler_vars, register_vars,
                   adapter_vars>>

\* A caller awaits reader.update_status(new_status, reason) on the mock reader.
MockUpdateStatus(new_status, reason) ==
    /\ update_status_attr = "AsyncMock"
    /\ update_calls < MaxUpdateCalls
    /\ update_calls' = update_calls + 1
    /\ LET up == await_update_status(TheReader, new_status, reason, now)
       IN /\ status' = up.reader.status
          /\ status_history' = up.reader.status_history
          /\ update_call' = [new_status |-> new_status, reason |-> reason,
                             result |-> IF up.raised = "none" THEN "True" ELSE up.raised]
          /\ update_successes' = update_successes + (IF up.updated THEN 1 ELSE 0)
    /\ UNCHANGED <<validation_cache, filter_call_vars, read_buffer, now, dedup_call_vars,
                   pipe_vars, lifecycle_vars, read_vars, observer_vars, last_heartbeat,
                   error_count, update_status_attr, health_vars, connect_vars, handler_vars,
                   register_vars, adapter_vars>>

\* The task connect_reader created with create_task(self._handle_reads(reader))
\* starts to run.
SpawnedHandleReads ==
    /\ handler_spawned > 0
    /\ HandleReads

\* _process_reader_reads, the task register_reader created: `while
\* str(reader.id) in self._readers`, at task start and after each sleep; the
\* body calls _handle_reads, which runs its own receive loop while the reader
\* has a client.
ProcessReaderReads ==
    /\ processing_task_pc \in {"created", "sleeping"}
    /\ processing_task_pc' =
           IF TheReaderId \notin controller_readers THEN "none"
           ELSE IF TheReaderId \in llrp_clients THEN "receiving"
           ELSE "sleeping"
    /\ UNCHANGED <<validation_cache, filter_call_vars, read_buffer, now, dedup_call_vars,
                   pipe_vars, lifecycle_vars, read_vars, observer_vars, reader_vars,
                   health_vars, connect_vars, handler_vars, register_pc, register_result,
                   controller_readers, adapter_vars>>

\* _process_reader_reads: receive_report raises in the _handle_reads it
\* called.  The except clause of _handle_reads awaits update_status(ERROR); if
\* that returns, _handle_reads breaks and returns and the task sleeps.  If it
\* raises, the except clause of _process_reader_reads awaits
\* update_status(ERROR) once more, `finally` removes the task, and the task ends.
ProcessingTaskError ==
    /\ processing_task_pc = "receiving"
    /\ update_calls + 2 <= MaxUpdateCalls
    /\ LET first == await_update_status(TheReader, "ERROR", "Read handling error", now)
           second == await_update_status(first.reader, "ERROR", "Processing error", now)
           last == IF first.raised = "none" THEN first ELSE second
       IN /\ status' = last.reader.status
          /\ status_history' = last.reader.status_history
          /\ last_heartbeat' = last.reader.last_heartbeat
          /\ error_count' = last.reader.error_count
          /\ update_calls' = update_calls + (IF first.raised = "none" THEN 1 ELSE 2)
          /\ update_successes' =
                 update_successes + (IF first.updated THEN 1 ELSE 0)
                     + (IF first.raised # "none" /\ second.updated THEN 1 ELSE 0)
          /\ processing_task_pc' = IF first.raised = "none" THEN "sleeping" ELSE "none"
    /\ UNCHANGED <<validation_cache, filter_call_vars, read_buffer, now, dedup_call_vars,
                   pipe_vars, lifecycle_vars, read_vars, observer_vars, update_call,
                   update_status_attr, health_vars, connect_vars, handler_vars, register_pc,
                   register_result, controller_readers, adapter_vars>>

MockReasons == {OperatorReason}

NextRegister ==
    \/ MockReader
    \/ \E new_status \in ReaderStatus, reason \in MockReasons :
           MockUpdateStatus(new_status, reason)
    \/ RegisterReader
    \/ \E llrp_outcome \in LLRPOutcomes : ConnectAttempt(llrp_outcome)
    \/ ConnectRetry
    \/ SpawnedHandleReads
    \/ \E report \in HandlerReports : HandleReport(report)
    \/ HandleTransportError
    \/ ProcessReaderReads
    \/ ProcessingTaskError
    \/ Tick

SpecRegister == Init /\ [][NextRegister]_vars

(***************************************************************************)
(* Properties of ReadDeduplicator.process_reads (under SpecDedup).          *)
(***************************************************************************)
RECURSIVE IsSubsequence(_, _)
IsSubsequence(s, t) ==
    IF s = <<>> THEN TRUE
    ELSE IF t = <<>> THEN FALSE
    ELSE IF Head(s) = Head(t) THEN IsSubsequence(Tail(s), Tail(t))
    ELSE IsSubsequence(s, Tail(t))

InRange(read) ==
    read.signal_strength >= MIN_SIGNAL_STRENGTH /\ read.signal_strength <= MAX_SIGNAL_STRENGTH

\* same tag, |read_time difference| <= time_window, |signal difference| < threshold
PairwiseDuplicate(a, b) ==
    /\ a.rfid_tag = b.rfid_tag
    /\ Abs(a.read_time - b.read_time) <= time_window_seconds
    /\ Abs(a.signal_strength - b.signal_strength) < signal_threshold_dbm

BufferedReads(buf) == UNION {{buf[g][i] : i \in 1..Len(buf[g])} : g \in DOMAIN buf}

Entries == {d_trace[i] : i \in 1..Len(d_trace)}

\* C5: the batch returned by process_reads is a subsequence of the input batch:
\* only input reads, none more often than in the input, in input order.
C5_OutputIsSubsequence == IsSubsequence(d_out, d_batch)

\* a call that kept some reads and withheld others, with a gap inside the output
C5_Witness ==
    /\ d_batch = ScenarioBatch
    /\ d_out = <<ScenarioBatch[1], ScenarioBatch[3], ScenarioBatch[4]>>

\* C6: no emitted read is a pairwise duplicate of a read that was in the
\* buffer at the instant it was emitted, reads admitted earlier in the same
\* call included.
C6_NoEmittedDuplicate ==
    \A e \in Entries :
        e.fate = "emitted" =>
            \A x \in BufferedReads(e.buffer) : ~PairwiseDuplicate(e.read, x)

\* a read emitted while the buffer held another read of its tag inside the
\* window, admitted earlier in the same call
C6_Witness ==
    \E e \in Entries :
        /\ e.fate = "emitted"
        /\ \E x \in BufferedReads(e.buffer) :
              /\ x.rfid_tag = e.read.rfid_tag
              /\ Abs(x.read_time - e.read.read_time) <= time_window_seconds
              /\ \E i \in 1..Len(d_batch) : d_batch[i] = x

BelowCap(e) == buffer_total(e.buffer) < max_buffer_size

SameTagAndSignal(batch) ==
    \A i, j \in 1..Len(batch) :
        /\ batch[i].rfid_tag = batch[j].rfid_tag
        /\ batch[i].signal_strength = batch[j].signal_strength
        /\ Abs(batch[i].read_time - batch[j].read_time) <= time_window_seconds

StartedEmpty == d_trace # <<>> /\ DOMAIN d_trace[1].buffer = {}

\* C7: below the cap a read is withheld iff some buffered read of its tag has
\* |read_time difference| <= window and |signal difference| < threshold; n
\* equal-signal reads of a tag inside the window leave one survivor; the
\* scenario leaves the reads at t = 0.0, 2.0 and 6.5.
C7_WithheldIffDuplicate ==
    /\ \A e \in Entries :
          BelowCap(e) =>
              (e.fate # "emitted" <=>
                  \E x \in BufferedReads(e.buffer) : PairwiseDuplicate(e.read, x))
    /\ (StartedEmpty /\ SameTagAndSignal(d_batch)) => Len(d_out) = 1
    /\ (StartedEmpty /\ d_batch = ScenarioBatch) =>
          d_out = <<ScenarioBatch[1], ScenarioBatch[3], ScenarioBatch[4]>>

\* the scenario run on an empty buffer, a read withheld below the cap
C7_Witness ==
    /\ StartedEmpty
    /\ d_batch = ScenarioBatch
    /\ \E e \in Entries : BelowCap(e) /\ e.fate = "duplicate"

\* C8: the buffer never holds more than max_buffer_size reads; a read of an
\* unseen tag that meets a full buffer is neither emitted nor stored, and the
\* buffer it met is the buffer the call leaves (nothing evicted for it).
C8_BufferCapped ==
    /\ buffer_total(read_buffer) <= max_buffer_size
    /\ \A e \in Entries :
          (~BelowCap(e) /\ e.read.rfid_tag \notin DOMAIN e.buffer) =>
              /\ e.fate # "emitted"
              /\ read_buffer = e.buffer

\* a read of an unseen tag met a full buffer holding older reads
C8_Witness ==
    \E e \in Entries :
        /\ ~BelowCap(e)
        /\ e.read.rfid_tag \notin DOMAIN e.buffer
        /\ buffer_total(read_buffer) = max_buffer_size

(***************************************************************************)
(* Properties of ReadFilter.apply_filters (under SpecFilter).               *)
(***************************************************************************)
\* 0 outside [-70, -20], else 0.6 * (signal + 70) / 50 + 0.4, times 1000
ClaimedScore(read) ==
    IF ~InRange(read) THEN 0 ELSE 12 * (read.signal_strength + 70) + 400

\* C9 (as claimed): apply_filters returns exactly the reads of the batch whose
\* score is >= quality_threshold, in input order.
C9_FilterExact ==
    f_phase # "idle" =>
        f_out = SelectSeq(f_batch, LAMBDA r : ClaimedScore(r) >= quality_threshold)

\* C10: apply_filters applied to its own output returns that output.
C10_FilterIdempotent == f_phase = "twice" => f_out2 = f_out

\* a second pass over an output that lost some reads of a batch longer than a sub-batch
C10_Witness ==
    /\ f_phase = "twice"
    /\ Len(f_batch) > FilterBatchSize
    /\ f_out # <<>>
    /\ Len(f_out) < Len(f_batch)
    /\ f_out2 = f_out

(***************************************************************************)
(* Properties of the ingress queue and the counters (under Spec).           *)
(***************************************************************************)
\* A process_read call on this step was given a valid read and found the
\* queue full.
RejectedForFull == calls' = calls + 1 /\ drops' = drops + 1

ErrorsTotal ==
    processing_errors["queue"] + processing_errors["batch"] + processing_errors["loop"]

WorkerAlive == \E w \in Workers : loop_pc[w] # "none"

\* C1: in every reachable state, whatever the interleaving of process_read
\* callers, the processing loops and the stop() drain, the ingress queue holds
\* at most queue_size_limit reads.
C1_QueueBounded == Len(read_queue) <= queue_size_limit

\* A producer has just been turned away from a queue at its limit while a
\* processing loop is alive.
C1_Witness ==
    /\ Len(read_queue) = queue_size_limit
    /\ last_result = "False"
    /\ drops >= 1
    /\ WorkerAlive

\* C2: a process_read call that finds the queue full returns False in the same
\* step (it does not suspend), and the queue is exactly as before the call.
C2_FullQueueRejects ==
    [][(calls' = calls + 1 /\ reads_received' = reads_received + 1
            /\ Len(read_queue) >= queue_size_limit)
        => (last_result' = "False" /\ read_queue' = read_queue)]_vars

\* A full queue has rejected a valid read after accepting others.
C2_Witness ==
    /\ last_result = "False"
    /\ drops >= 1
    /\ Len(read_queue) = queue_size_limit
    /\ reads_received = drops + queue_size_limit

\* C3: every process_read call rejected because the queue is full adds exactly
\* one to reads_received and exactly one to a drop counter kept by the
\* processor (capacity 2, R1 R2 R3 and no consumer: received 3, queue 2,
\* drops 1).
C3_DropCounted ==
    [][RejectedForFull
        => (reads_received' = reads_received + 1 /\ ErrorsTotal' = ErrorsTotal + 1)]_vars

\* C4: in every reachable state reads_received >= reads_processed + drops,
\* drops being the number of valid reads rejected because the queue was full.
C4_ReceivedCoversProcessedAndDrops == reads_received >= reads_processed + drops

\* Every accepted read has been processed and one was rejected: the bound is
\* met with equality.
C4_Witness ==
    /\ drops >= 1
    /\ reads_processed >= 1
    /\ reads_received = reads_processed + drops

(***************************************************************************)
(* Properties of Reader.update_status (under SpecReader).                   *)
(***************************************************************************)
\* the transition matrix as the specification states it
AllowedTransitions ==
    {<<"OFFLINE", "ONLINE">>, <<"OFFLINE", "MAINTENANCE">>,
     <<"ONLINE", "OFFLINE">>, <<"ONLINE", "ERROR">>, <<"ONLINE", "MAINTENANCE">>,
     <<"ERROR", "OFFLINE">>, <<"ERROR", "MAINTENANCE">>,
     <<"MAINTENANCE", "OFFLINE">>}

UpdateCalled == update_calls' = update_calls + 1

\* C11: update_status succeeds exactly when the requested status is in the
\* allowed set of the current one; every other request (OFFLINE -> ERROR,
\* ERROR -> ONLINE, self-transitions) fails with an error and leaves the
\* status; the status only ever changes along an edge of the matrix.
C11_OnlyMatrixTransitions ==
    [][/\ status' # status => <<status, status'>> \in AllowedTransitions
       /\ UpdateCalled =>
             /\ update_call'.result = "True"
                    <=> <<status, update_call'.new_status>> \in AllowedTransitions
             /\ update_call'.result = "True" => status' = update_call'.new_status
             /\ update_call'.result # "True"
                    => (update_call'.result = "ValueError" /\ status' = status)]_vars

\* ERROR -> ONLINE was asked for and refused
C11_Witness ==
    /\ status = "ERROR"
    /\ update_call = [new_status |-> "ONLINE", reason |-> "Connected successfully",
                      result |-> "ValueError"]

\* C12: every successful update_status(new, reason) appends exactly one
\* history entry holding the old status, the new status and the reason, sets
\* last_heartbeat to the time of the update, and adds one to error_count iff
\* new is ERROR; after n successful updates the history holds n + 1 entries.
C12_UpdateRecorded ==
    /\ [](Len(status_history) = update_successes + 1)
    /\ [][(UpdateCalled /\ update_call'.result = "True") =>
             /\ Len(status_history') = Len(status_history) + 1
             /\ SubSeq(status_history', 1, Len(status_history)) = status_history
             /\ LET entry == status_history'[Len(status_history')]
                IN /\ entry.old_status = status
                   /\ entry.new_status = update_call'.new_status
                   /\ entry.reason = update_call'.reason
                   /\ entry.timestamp = now
             /\ last_heartbeat' = now
             /\ error_count' = error_count
                                 + (IF update_call'.new_status = "ERROR" THEN 1 ELSE 0)]_vars

\* OFFLINE -> ONLINE -> ERROR -> MAINTENANCE -> OFFLINE, the last update after
\* the clock has moved: five entries, one error
C12_Witness ==
    /\ Len(status_history) = 5
    /\ [i \in 2..5 |-> status_history[i].new_status]
           = [i \in 2..5 |-> <<"x", "ONLINE", "ERROR", "MAINTENANCE", "OFFLINE">>[i]]
    /\ error_count = 1
    /\ last_heartbeat > 0
    /\ last_heartbeat = now

\* C13: status_history never holds more than the cap; the oldest entries are
\* dropped first.
C13_HistoryCapped == Len(status_history) <= HistoryCap

(***************************************************************************)
(* Properties of the circuit breaker (under Spec and SpecBreaker).          *)
(***************************************************************************)
\* errors / max(processed, 1) > 15 %, over the errors the pipeline has counted
ErrorRateExceeded ==
    ErrorsTotal * 100
        > CIRCUIT_BREAKER_THRESHOLD * (IF processed_count = 0 THEN 1 ELSE processed_count)

Tripped == \E w \in Workers : loop_pc[w] = "cooldown"

BatchFailed == processing_errors'["batch"] = processing_errors["batch"] + 1

ProcessReadCalled == calls' = calls + 1

\* C14: when errors / max(processed, 1) exceeds 15 % the pipeline enters a
\* tripped state; while it is tripped every process_read call is rejected with
\* the circuit-open result and no batch is processed.
C14_BreakerTrips ==
    [][/\ (processing_errors'["loop"] = processing_errors["loop"] + 1 /\ ErrorRateExceeded')
              => Tripped'
       /\ (Tripped /\ ProcessReadCalled)
              => (last_result' = "circuit open" /\ read_queue' = read_queue)
       /\ Tripped => reads_processed' = reads_processed]_vars

\* C15: a tripped pipeline leaves the tripped state with its error and
\* processed counters reset, so that earlier errors cannot trip it again.
C15_CooldownResetsCounters ==
    [][\A w \in Workers :
          (loop_pc[w] = "cooldown" /\ loop_pc'[w] # "cooldown")
              => (sum_values(error_counts') = 0 /\ processed_count' = 0)]_vars

\* C16: after every failed batch the error total that _check_error_threshold
\* reads is strictly larger than before the failure.
C16_FailedBatchCounted ==
    [][BatchFailed => sum_values(error_counts') > sum_values(error_counts)]_vars

(***************************************************************************)
(* Properties of stop() (under Spec and FairSpec).                          *)
(***************************************************************************)
\* C17: every process_read call made once stop() has begun is rejected and
\* leaves the queue unchanged.
C17_NoAdmissionAfterStop ==
    [][(stop_pc = "process" /\ ProcessReadCalled)
          => (last_result' # "True" /\ read_queue' = read_queue)]_vars

\* C18: stop() returns only when the queue is empty; by then every read that
\* was queued when stop() was called has been through batch processing, in
\* batches of at most BATCH_SIZE.
C18_StopDrainsEverything ==
    /\ [](Len(stop_batch) <= BATCH_SIZE)
    /\ [][(stop_pc = "process" /\ stop_pc' = "idle") => read_queue' = <<>>]_vars
    /\ [](stop_pc = "idle" => (owed_in_queue = 0 /\ \A w \in Workers : owed_held[w] = 0))

AllWorkersExited == \A w \in Workers : loop_pc[w] = "none" /\ monitor_pc[w] = "none"

ProcessReadCalls == reads_received + processing_errors["queue"]

LLRPProcessBatchCalled ==
    <<batch_reader_id', batch_reports', batch_processor', processor_calls', connection_errors'>>
        # <<batch_reader_id, batch_reports, batch_processor, processor_calls, connection_errors>>

\* the EPCData entries of a sequence of reports
RECURSIVE EntryCount(_)
EntryCount(reports) ==
    IF reports = <<>> THEN 0
    ELSE (IF "EPCData" \in DOMAIN Head(reports) THEN Len(Head(reports)["EPCData"]) ELSE 0)
             + EntryCount(Tail(reports))

\* C20: for every EPCData entry of every report of a process_batch call, one
\* read (rfid_tag = EPC, that reader's id, signal_strength = PeakRSSI or -70)
\* is offered to ReadProcessor.process_read.
C20_EveryEntrySubmitted ==
    [][LLRPProcessBatchCalled
          => ProcessReadCalls' = ProcessReadCalls + EntryCount(batch_reports')]_vars

\* some EPCData entry of the reports has a signal strength within bounds
HasValidEntry(reports) ==
    \E i \in 1..Len(reports) : \E j \in 1..Len(EPCData(reports[i])) :
        /\ PeakRSSI(EPCData(reports[i])[j]) >= MIN_SIGNAL_STRENGTH
        /\ PeakRSSI(EPCData(reports[i])[j]) <= MAX_SIGNAL_STRENGTH

\* C29: LLRPService.process_batch calls the processor's process_batch
\* exactly once if the reports hold an EPCData entry whose PeakRSSI is
\* within [-70, -20], and not at all otherwise (no EPCData, or every entry
\* out of range).
C29_OnlyValidBatchesReachProcessor ==
    [][LLRPProcessBatchCalled
          => processor_calls' = processor_calls
                 + (IF HasValidEntry(batch_reports') THEN 1 ELSE 0)]_vars

(***************************************************************************)
(* Properties of Reader.is_healthy (under SpecReader).                      *)
(***************************************************************************)
\* the status_history entries that record a change to ERROR
ErrorEntries ==
    {i \in 1..Len(status_history) :
        "new_status" \in DOMAIN status_history[i] /\ status_history[i]["new_status"] = "ERROR"}

MostRecentError ==
    IF ErrorEntries = {} THEN <<>>
    ELSE <<status_history[CHOOSE i \in ErrorEntries : \A j \in ErrorEntries : j <= i]>>

\* C26: is_healthy never fails; is_online iff status is ONLINE, heartbeat_ok
\* iff the heartbeat age is within the threshold, last_error is the most
\* recent history entry whose new_status is ERROR, or null without one.
C26_IsHealthyTotal ==
    [][health_call' # health_call
          => /\ health_call'.raised = "none"
             /\ health_call'.result[1].is_online = (status = "ONLINE")
             /\ health_call'.result[1].heartbeat_ok
                    = (now - last_heartbeat <= HEARTBEAT_THRESHOLD_SECONDS)
             /\ health_call'.result[1].last_error = MostRecentError]_vars

(***************************************************************************)
(* Properties of LLRPService.connect_reader (under SpecConnect).            *)
(***************************************************************************)
AttemptMade == connect_tries' = connect_tries + 1

\* the attempt failed in an LLRP step: TCP connect, tx power or ROSpec
LLRPStepFailed ==
    AttemptMade /\ connect_errors'["ConnectionError"] = connect_errors["ConnectionError"] + 1

\* C22: after a connect attempt that failed in an LLRP step the reader's
\* status is ERROR, also for a reader that was OFFLINE before the attempt;
\* it is still ERROR when the next attempt begins unless another caller
\* changed it.
C22_FailedAttemptSetsError ==
    [][LLRPStepFailed => status' = "ERROR"]_vars

\* the connect_reader call ends with an exception
CallFailed == connect_pc = "attempt" /\ connect_pc' = "idle" /\ connect_result' # "True"

\* C23: a connect_reader call makes the first attempt and at most 3 retries; a
\* call whose attempts all fail ends with an error and leaves the reader in
\* ERROR, and a further attempt is made only by a new call.
C23_BoundedRetriesThenError ==
    /\ [](connect_tries <= 1 + 3)
    /\ [][CallFailed => (connect_result' \in ErrorTypes /\ status' = "ERROR")]_vars
    /\ [][(connect_pc = "idle" /\ connect_pc' = "attempt")
              => connect_calls' = connect_calls + 1]_vars

HeartbeatFresh == now - last_heartbeat <= HEARTBEAT_THRESHOLD_SECONDS

\* C24: an attempt on a reader with a fresh heartbeat whose LLRP steps all
\* succeed makes connect_reader return True (after as many attempts as there
\* were failures, plus one); the reader is then ONLINE, the last history entry
\* has the reason "Connected successfully", and the registry holds the reader.
C24_ConnectSucceeds ==
    [][(AttemptMade /\ HeartbeatFresh /\ ~LLRPStepFailed)
          => /\ connect_result' = "True"
             /\ connect_pc' = "idle"
             /\ status' = "ONLINE"
             /\ status_history'[Len(status_history')].reason = "Connected successfully"
             /\ TheReaderId \in llrp_readers']_vars

\* register_reader is called, or connect_reader makes an attempt
RegistrationStep ==
    \/ AttemptMade
    \/ register_result' # register_result
    \/ register_pc = "idle" /\ register_pc' = "connecting"

\* the history entries that record a change to ONLINE
OnlineEntries(history) ==
    {i \in 1..Len(history) :
        "new_status" \in DOMAIN history[i] /\ history[i]["new_status"] = "ONLINE"}

\* C25: registering or connecting a reader whose heartbeat is older than the
\* threshold is rejected: no receive loop is spawned, the status is not set
\* to ONLINE, and neither registry takes the reader.
C25_StaleReaderRejected ==
    [][(RegistrationStep /\ ~HeartbeatFresh)
          => /\ handler_spawned' = handler_spawned
             /\ register_result' # "Reader"
             /\ connect_result' # "True"
             /\ OnlineEntries(status_history') = OnlineEntries(status_history)
             /\ llrp_readers' = llrp_readers
             /\ llrp_clients' = llrp_clients
             /\ controller_readers' = controller_readers]_vars

\* a reader whose history would pass is_healthy was refused for its heartbeat
C25_Witness ==
    /\ ErrorEntries # {}
    /\ connect_errors["ValueError"] >= 1
    /\ connect_errors["KeyError"] = 0
    /\ llrp_readers = {}

(***************************************************************************)
(* Properties of LLRPService._handle_reads (under SpecHandler).             *)
(***************************************************************************)
\* the receive loop leaves its loop; only an error of receive_report does that
TransportError == handler_pc = "receiving" /\ handler_pc' # "receiving"

\* C21: when the receive loop hits a transport error the reader's status
\* becomes ERROR through update_status, the loop exits, and it receives no
\* further report.
C21_TransportErrorSetsError ==
    /\ [][TransportError => status' = "ERROR"]_vars
    /\ [][(handler_pc = "returned" \/ handler_pc = "raised")
              => (handler_pc' = handler_pc /\ reports_received' = reports_received)]_vars

(***************************************************************************)
(* Properties of ReadProcessor.start and stop (under SpecLifecycle).        *)
(***************************************************************************)
StartStep == start_calls' = start_calls + 1

StopStep == stop_pc = "idle" /\ (stop_pc' = "process" \/ (running /\ ~running'))

\* the tasks a step creates
SpawnedLoops == {w \in Workers : loop_pc[w] = "none" /\ loop_pc'[w] # "none"}

SpawnedMonitors == {w \in Workers : monitor_pc[w] = "none" /\ monitor_pc'[w] # "none"}

\* C30: start() on a running pipeline fails with an error and creates no
\* task; start() on a stopped pipeline sets it running and creates exactly
\* two tasks, one processing loop and one health monitor; no other step
\* creates a task; stop() leaves the pipeline not running.
C30_StartStop ==
    /\ [][(StartStep /\ running)
              => /\ start_result' = "RuntimeError"
                 /\ running'
                 /\ SpawnedLoops = {} /\ SpawnedMonitors = {}]_vars
    /\ [][(StartStep /\ ~running)
              => /\ start_result' = "None"
                 /\ running'
                 /\ Cardinality(SpawnedLoops) = 1 /\ Cardinality(SpawnedMonitors) = 1]_vars
    /\ [][(SpawnedLoops # {} \/ SpawnedMonitors # {}) => (StartStep /\ ~running)]_vars
    /\ [][StopStep => ~running']_vars

\* a start() was refused on the running pipeline, which was then stopped
\* with reads still queued
C30_Witness == start_result = "RuntimeError" /\ ~running /\ stop_pc = "process"

(***************************************************************************)
(* Properties of Read construction (under SpecRead).                        *)
(***************************************************************************)
\* C27: every Read that was constructed has an rfid_tag of exactly 24 hex
\* characters, a reader_id that is not empty and a signal strength within
\* [-70, -20]; a construction with a field that violates one of these fails.
C27_ConstructedReadsValid ==
    (read_call # <<>> /\ read_call.outcome.raised = "none")
        => /\ Len(read_call.rfid_tag) = TagLength
           /\ \A i \in 1..Len(read_call.rfid_tag) : read_call.rfid_tag[i] \in HexChars
           /\ read_call.reader_id # <<>>
           /\ read_call.signal_strength >= MIN_SIGNAL_STRENGTH
           /\ read_call.signal_strength <= MAX_SIGNAL_STRENGTH

(***************************************************************************)
(* Properties of Read.is_processed in the pipeline (under Spec).            *)
(***************************************************************************)
\* the reads _process_batch has counted as processed: the deduplicator keeps
\* each of them in its buffer until it expires
CountedReads ==
    UNION {{read_buffer[tag][i] : i \in 1..Len(read_buffer[tag])} : tag \in DOMAIN read_buffer}

\* C28: every read counted as processed carries is_processed = true, and
\* every read waiting in the queue carries is_processed = false.
C28_ProcessedFlag ==
    /\ \A read \in CountedReads : read.is_processed
    /\ \A i \in 1..Len(read_queue) : ~read_queue[i].is_processed

(***************************************************************************)
(* Properties of process_read on an invalid read (under SpecIngress).       *)
(***************************************************************************)
\* a process_read call whose read fails validate_signal_strength
InvalidReadOffered ==
    /\ calls' = calls + 1
    /\ (read_arg'[1].signal_strength < MIN_SIGNAL_STRENGTH
           \/ read_arg'[1].signal_strength > MAX_SIGNAL_STRENGTH)

Dequeuing == {w \in Workers : loop_pc[w] = "collect"}

\* stop() takes reads from the queue
StopDequeues == stop_batch' # stop_batch /\ stop_batch' # <<>>

\* C32: at most one task consumes the ingress queue at any instant: never
\* two _processing_loop tasks, also after stop() followed by start(), and
\* stop() does not dequeue while a _processing_loop task is still dequeuing.
C32_SingleConsumer ==
    /\ [](Cardinality(Dequeuing) <= 1)
    /\ [][StopDequeues => Dequeuing = {}]_vars

(***************************************************************************)
(* Properties of the order of processing (under SpecOrder).                 *)
(***************************************************************************)
InSeq(read, seq) == \E k \in 1..Len(seq) : seq[k] = read

\* stop() takes a batch from the queue; it calls _process_batch on it at once
StopDrains ==
    /\ stop_batch' # <<>>
    /\ Len(read_queue') < Len(read_queue)
    /\ loop_batch' = loop_batch

\* a _processing_loop task passes its batch through _process_batch
LoopHands(w) == loop_pc[w] = "process" /\ loop_pc'[w] # "process"

\* the batch that is handed to _process_batch in this step, <<>> if none is
HandedBatch ==
    IF \E w \in Workers : LoopHands(w)
    THEN loop_batch[CHOOSE w \in Workers : LoopHands(w)]
    ELSE IF StopDrains THEN stop_batch'
    ELSE <<>>

\* after the step the read still waits: in the queue or in the batch a
\* _processing_loop task holds
StillWaiting(read) ==
    \/ InSeq(read, read_queue')
    \/ \E w \in Workers : InSeq(read, loop_batch'[w])

\* C33: reads reach _process_batch in the order the queue accepted them: a
\* read is never handed over while a read accepted before it still waits,
\* and within one batch the earlier read comes first.
C33_ArrivalOrderKept ==
    [][\A i, j \in 1..Len(OrderedReads) :
          (i < j /\ InSeq(OrderedReads[j], HandedBatch))
              => /\ ~StillWaiting(OrderedReads[i])
                 /\ \A k, l \in 1..Len(HandedBatch) :
                        (HandedBatch[k] = OrderedReads[j] /\ HandedBatch[l] = OrderedReads[i])
                            => l < k]_vars

(***************************************************************************)
(* Properties of a failed connect_reader (under SpecConnect).               *)
(***************************************************************************)
\* C35: when connect_reader has failed, at whatever step, also at the status
\* update that follows the LLRP steps, the service holds no client and no
\* reader entry for that reader and has created no receive loop for it.
C35_FailedConnectLeavesNothing ==
    (connect_pc = "idle" /\ connect_result \in ErrorTypes)
        => /\ TheReaderId \notin llrp_clients
           /\ TheReaderId \notin llrp_readers
           /\ handler_spawned = 0

(***************************************************************************)
(* Properties of a rejected update_status (under SpecReader).               *)
(***************************************************************************)
UpdateRejected == update_calls' = update_calls + 1 /\ update_call'.result = "ValueError"

\* C39: an update_status call that is rejected leaves the reader as it was:
\* status, status_history, last_heartbeat and error_count do not change.
C39_RejectedUpdateChangesNothing ==
    [][UpdateRejected
          => /\ status' = status
             /\ status_history' = status_history
             /\ last_heartbeat' = last_heartbeat
             /\ error_count' = error_count]_vars

\* a reader in ERROR, with a heartbeat older than the clock, was asked to go
\* to ERROR again
C39_Witness ==
    /\ update_call # <<>>
    /\ update_call.result = "ValueError"
    /\ update_call.new_status = "ERROR"
    /\ status = "ERROR"
    /\ error_count = 1
    /\ last_heartbeat < now

(***************************************************************************)
(* Reads of buffered tags at the cap (under SpecDedup).                     *)
(***************************************************************************)
\* C36: a read that meets a full buffer and whose tag has a bucket is still
\* compared with that bucket: it is classified, duplicate iff some buffered
\* read of its tag matches it, and is not skipped with the rest of the batch.
C36_BufferedTagsStillCompared ==
    \A e \in Entries :
        (~BelowCap(e) /\ e.read.rfid_tag \in DOMAIN e.buffer) =>
            /\ e.fate # "skipped"
            /\ e.fate = "duplicate" <=>
                  \E x \in BufferedReads(e.buffer) : PairwiseDuplicate(e.read, x)

(***************************************************************************)
(* Entries that cannot be turned into a read (under SpecAdapter).           *)
(***************************************************************************)
\* a process_batch call was made with an EPCData entry that carries an EPC
BatchWithGoodEntry ==
    /\ adapter_vars' # adapter_vars
    /\ \E i \in 1..Len(report_tags(batch_reports')) : has_EPC(report_tags(batch_reports')[i])

\* C37: an entry that cannot be turned into a read is dropped alone: the
\* entries of the micro-batch that carry an EPC are still submitted to the
\* processor (where the processor has the method called), and the reader's
\* status stays as it was.
C37_OnlyBadEntryDropped ==
    [][(BatchWithGoodEntry /\ has_method(batch_processor', "process_batch"))
          => /\ processor_calls' = processor_calls + 1
             /\ Len(batch_reads') =
                    Cardinality({i \in 1..Len(report_tags(batch_reports')) :
                                    has_EPC(report_tags(batch_reports')[i])})
             /\ status' = status]_vars

(***************************************************************************)
(* The micro-batch of _handle_reads (under SpecHandler).                    *)
(***************************************************************************)
HandlerExited == handler_pc = "returned" \/ handler_pc = "raised"

\* C38: the micro-batch never holds more than the batch size, and no report
\* placed in it is left behind: when the receive loop has ended, also on an
\* error, the reports it held have been passed to process_batch.
C38_MicroBatchDrained ==
    /\ Len(handler_batch) <= AdapterBatchSize
    /\ HandlerExited => handler_batch = <<>>

(***************************************************************************)
(* Accepted reads on their way to _process_batch (under LiveOrder).         *)
(***************************************************************************)
\* the reads the producer offers
OfferedReads == {OrderedReads[i] : i \in 1..Len(OrderedReads)}

\* the batches that were taken from the queue and not yet processed
HeldBatches == {loop_batch[w] : w \in Workers} \cup {stop_batch}

\* the accepted reads that have not been through _process_batch
Held == {read \in OfferedReads :
            InSeq(read, read_queue) \/ \E batch \in HeldBatches : InSeq(read, batch)}

\* how many places hold the read: queue positions and batch positions
Places(read) ==
    Cardinality({k \in 1..Len(read_queue) : read_queue[k] = read})
      + Cardinality({<<w, k>> \in Workers \X (1..BATCH_SIZE) :
                        k <= Len(loop_batch[w]) /\ loop_batch[w][k] = read})
      + Cardinality({k \in 1..Len(stop_batch) : stop_batch[k] = read})

\* stop() comes back from _process_batch
StopHands == stop_pc = "process" /\ (stop_pc' = "idle" \/ stop_batch' # stop_batch)

\* the reads that have been through _process_batch with this step
HandedNow ==
    {read \in OfferedReads :
        \/ \E w \in Workers : LoopHands(w) /\ InSeq(read, loop_batch[w])
        \/ StopHands /\ InSeq(read, stop_batch)}

\* the read process_read accepted in this step
AcceptedNow ==
    IF ProcessReadCalled /\ last_result' = "True"
    THEN {read_queue'[Len(read_queue')]} ELSE {}

\* C40: every read process_read accepted goes through _process_batch exactly
\* once, whatever the interleaving of producers, _processing_loop tasks and
\* stop(): it is held in one place at a time, it leaves the queue and the
\* batches only through _process_batch, and it does leave if the pipeline
\* stays running from some time on or stop() is called at some time while
\* reads wait in the queue.
C40_HandedExactlyOnce ==
    /\ [](\A read \in OfferedReads : Places(read) <= 1)
    /\ [][Held' = (Held \ HandedNow) \cup AcceptedNow /\ AcceptedNow \cap Held = {}]_vars
    /\ (<>[]running \/ WF_vars(read_queue # <<>> /\ Stop))
          => \A read \in OfferedReads : (read \in Held) ~> (read \notin Held)

\* the three reads were accepted and wait in three places: one in the queue,
\* one in the batch of a _processing_loop task, one in the batch of stop()
C40_Witness ==
    /\ Cardinality(Held) = 3
    /\ read_queue # <<>>
    /\ stop_pc = "process" /\ stop_batch # <<>>
    /\ \E w \in Workers : loop_batch[w] # <<>>

(***************************************************************************)
(* The receive loops of a registered reader (under SpecRegister).           *)
(***************************************************************************)
\* the tasks that are inside the loop of _handle_reads for the reader
ReceiveLoops ==
    (IF handler_pc = "receiving" THEN 1 ELSE 0)
        + (IF processing_task_pc = "receiving" THEN 1 ELSE 0)

\* C34: at any time at most one task runs a receive loop for the reader.
C34_OneReceiveLoop == ReceiveLoops <= 1

====
